---- MODULE Spec2Model ----
(***************************************************************************)
(* IT-events-BOT: the event store (database.py), the ingestion cycle and   *)
(* the notification fan-out (bot.py) and the reminder scheduler            *)
(* (scheduler.py), as one state machine.                                   *)
(*                                                                         *)
(* All coroutines run on one asyncio event loop: a coroutine runs without  *)
(* interruption until it suspends at an await of the messaging transport.  *)
(* The variable loop names the coroutine that holds the event loop; every  *)
(* Database method is a plain synchronous call and so is atomic.           *)
(*                                                                         *)
(* Objects returned by Database methods are detached ORM instances         *)
(* (session.close() in every finally).  A handle records the row id and    *)
(* which attributes are still readable: cols (column attributes) and rels  *)
(* (the lazy relationships event / user).  Reading an attribute that is    *)
(* not loaded on a detached instance raises DetachedInstanceError.         *)
(***************************************************************************)
EXTENDS Integers, Sequences, FiniteSets, TLC

\* ---- bounds of the model ------------------------------------------------
MaxEvents == 2
MaxUsers == 2
MaxRegs == 2
MaxResources == 2
MaxMatches == 2
MaxElements == 2

\* ---- program constants ---------------------------------------------------
Hours1Day == 24
Hours1Hour == 1

\* ---- small input sets ----------------------------------------------------
\* What a page can yield: the first two differ in description and location
\* only, the third in title and date.  Dates and the clock are in hours.
Candidates ==
    { [title |-> "t1", description |-> "", event_date |-> 24, location |-> "none"],
      [title |-> "t1", description |-> "d1", event_date |-> 24, location |-> "hall"],
      [title |-> "t2", description |-> "", event_date |-> 25, location |-> "none"] }
Clock == {0, 1, 23, 24}
TgIds == 1..MaxUsers
ADMIN_IDS == {1}
Cycles == {"periodic", "forced"}
Kinds == {"1day", "1hour"}

VARIABLES
    resources,      \* table resources: Seq of [type, is_active], id = index
    events,         \* table events: Seq of rows, id = index
    users,          \* table users: Seq of [telegram_id, is_subscribed], id = index
    registrations,  \* table event_registrations: Seq of rows, id = index
    admins,         \* table admins: set of telegram ids
    now,            \* the clock, in hours
    loop,           \* the coroutine holding the event loop, or "none"
    cyc,            \* per ingestion cycle: the locals of check_for_new_events
    rem,            \* per reminder job: the locals of send_*_reminders
    outbox,         \* history: every completed bot.send_message call
    fanoutLog,      \* history: the events send_event_notification was called for
    last,           \* history: the latest recorded call
    clf,            \* the EventClassifier of event_parser: [use_ollama, classifier]
    fg              \* the update handler suspended at an await, with its open session

vars == <<resources, events, users, registrations, admins, now, loop, cyc, rem,
          outbox, fanoutLog, last, clf, fg>>

store == <<resources, events, users, registrations, admins>>

\* ---- detached ORM instances ---------------------------------------------
None == [id |-> 0, cols |-> FALSE, rels |-> FALSE]
Obj(i, c, r) == [id |-> i, cols |-> c, rels |-> r]
IsNone(h) == h.id = 0

Triple(e) == <<e.resource_id, e.title, e.event_date>>

EventExists(evs, resource_id, title, event_date) ==
    \E i \in 1..Len(evs) : Triple(evs[i]) = <<resource_id, title, event_date>>

\* ---- Database -----------------------------------------------------------
get_active_resources(rs) ==
    LET F[i \in 0..Len(rs)] ==
            IF i = 0 THEN <<>>
            ELSE IF rs[i].is_active THEN Append(F[i - 1], i) ELSE F[i - 1]
    IN  F[Len(rs)]

add_event_nocheck(evs, resource_id, title, description, event_date, location) ==
    [events |-> Append(evs, [resource_id |-> resource_id, title |-> title,
                             description |-> description, event_date |-> event_date,
                             location |-> location, notified |-> FALSE]),
     ret |-> Obj(Len(evs) + 1, FALSE, FALSE)]

add_event_desc_in_key(evs, resource_id, title, description, event_date, location) ==
    IF \E i \in 1..Len(evs) :
          /\ Triple(evs[i]) = <<resource_id, title, event_date>>
          /\ evs[i].description = description
    THEN [events |-> evs, ret |-> None]
    ELSE add_event_nocheck(evs, resource_id, title, description, event_date, location)

add_event_upsert(evs, resource_id, title, description, event_date, location) ==
    IF EventExists(evs, resource_id, title, event_date)
    THEN [events |-> [i \in 1..Len(evs) |->
                        IF Triple(evs[i]) = <<resource_id, title, event_date>>
                        THEN [evs[i] EXCEPT !.description = description,
                                            !.location = location]
                        ELSE evs[i]],
          ret |-> None]
    ELSE add_event_nocheck(evs, resource_id, title, description, event_date, location)

\* The row is returned after commit() and close(): expired and detached.
add_event(evs, resource_id, title, description, event_date, location) ==
    IF EventExists(evs, resource_id, title, event_date)
    THEN [events |-> evs, ret |-> None]
    ELSE [events |-> Append(evs, [resource_id |-> resource_id, title |-> title,
                                  description |-> description, event_date |-> event_date,
                                  location |-> location, notified |-> FALSE]),
          ret |-> Obj(Len(evs) + 1, FALSE, FALSE)]

mark_event_notified_toggle(evs, event_id) ==
    IF event_id \in 1..Len(evs)
    THEN [evs EXCEPT ![event_id].notified = ~evs[event_id].notified]
    ELSE evs

mark_event_notified(evs, event_id) ==
    IF event_id \in 1..Len(evs)
    THEN [evs EXCEPT ![event_id].notified = TRUE]
    ELSE evs

get_subscribed_users(us) ==
    LET F[i \in 0..Len(us)] ==
            IF i = 0 THEN <<>>
            ELSE IF us[i].is_subscribed THEN Append(F[i - 1], Obj(i, TRUE, FALSE))
                 ELSE F[i - 1]
    IN  F[Len(us)]

get_or_create_user_resubscribes(us, telegram_id) ==
    IF \E i \in 1..Len(us) : us[i].telegram_id = telegram_id
    THEN [users |-> [i \in 1..Len(us) |->
                       IF us[i].telegram_id = telegram_id
                       THEN [us[i] EXCEPT !.is_subscribed = TRUE]
                       ELSE us[i]],
          ret |-> Obj(CHOOSE i \in 1..Len(us) : us[i].telegram_id = telegram_id,
                      TRUE, FALSE)]
    ELSE [users |-> Append(us, [telegram_id |-> telegram_id, is_subscribed |-> TRUE]),
          ret |-> Obj(Len(us) + 1, TRUE, FALSE)]

\* The user is refreshed after commit(): the returned instance has its columns.
get_or_create_user(us, telegram_id) ==
    IF \E i \in 1..Len(us) : us[i].telegram_id = telegram_id
    THEN [users |-> us,
          ret |-> Obj(CHOOSE i \in 1..Len(us) : us[i].telegram_id = telegram_id,
                      TRUE, FALSE)]
    ELSE [users |-> Append(us, [telegram_id |-> telegram_id, is_subscribed |-> TRUE]),
          ret |-> Obj(Len(us) + 1, TRUE, FALSE)]

update_user_subscription(us, telegram_id, is_subscribed) ==
    [i \in 1..Len(us) |->
        IF us[i].telegram_id = telegram_id
        THEN [us[i] EXCEPT !.is_subscribed = is_subscribed]
        ELSE us[i]]

RegExists(regs, user_id, event_id) ==
    \E i \in 1..Len(regs) : regs[i].user_id = user_id /\ regs[i].event_id = event_id

register_for_event_nocheck(regs, user_id, event_id) ==
    [registrations |-> Append(regs, [user_id |-> user_id, event_id |-> event_id,
                                     reminder_1day_sent |-> FALSE,
                                     reminder_1hour_sent |-> FALSE]),
     ret |-> TRUE]

register_for_event(regs, user_id, event_id) ==
    IF RegExists(regs, user_id, event_id)
    THEN [registrations |-> regs, ret |-> FALSE]
    ELSE [registrations |-> Append(regs, [user_id |-> user_id, event_id |-> event_id,
                                          reminder_1day_sent |-> FALSE,
                                          reminder_1hour_sent |-> FALSE]),
          ret |-> TRUE]

get_registrations_for_reminder_with_past(regs, evs, t, hours_before) ==
    LET InWindow(i) == /\ regs[i].event_id \in 1..Len(evs)
                       /\ evs[regs[i].event_id].event_date <= t + hours_before
        Pending(i) == \/ hours_before = Hours1Day /\ ~regs[i].reminder_1day_sent
                      \/ hours_before = Hours1Hour /\ ~regs[i].reminder_1hour_sent
        F[i \in 0..Len(regs)] ==
            IF i = 0 THEN <<>>
            ELSE IF InWindow(i) /\ Pending(i) THEN Append(F[i - 1], Obj(i, TRUE, FALSE))
                 ELSE F[i - 1]
    IN  F[Len(regs)]

\* The join with events filters on the window; the rows come back with their
\* columns loaded and their relationships (event, user) not loaded.
get_registrations_for_reminder(regs, evs, t, hours_before) ==
    LET InWindow(i) == /\ regs[i].event_id \in 1..Len(evs)
                       /\ evs[regs[i].event_id].event_date <= t + hours_before
                       /\ evs[regs[i].event_id].event_date > t
        Pending(i) == \/ hours_before = Hours1Day /\ ~regs[i].reminder_1day_sent
                      \/ hours_before = Hours1Hour /\ ~regs[i].reminder_1hour_sent
        F[i \in 0..Len(regs)] ==
            IF i = 0 THEN <<>>
            ELSE IF InWindow(i) /\ Pending(i) THEN Append(F[i - 1], Obj(i, TRUE, FALSE))
                 ELSE F[i - 1]
    IN  F[Len(regs)]

mark_reminder_sent_toggle(regs, registration_id, reminder_type) ==
    IF registration_id \in 1..Len(regs)
    THEN IF reminder_type = "1day"
         THEN [regs EXCEPT ![registration_id].reminder_1day_sent = ~@]
         ELSE [regs EXCEPT ![registration_id].reminder_1hour_sent = ~@]
    ELSE regs

mark_reminder_sent_both(regs, registration_id, reminder_type) ==
    IF registration_id \in 1..Len(regs)
    THEN [regs EXCEPT ![registration_id].reminder_1day_sent = TRUE,
                      ![registration_id].reminder_1hour_sent = TRUE]
    ELSE regs

mark_reminder_sent(regs, registration_id, reminder_type) ==
    IF registration_id \in 1..Len(regs)
    THEN IF reminder_type = "1day"
         THEN [regs EXCEPT ![registration_id].reminder_1day_sent = TRUE]
         ELSE IF reminder_type = "1hour"
              THEN [regs EXCEPT ![registration_id].reminder_1hour_sent = TRUE]
              ELSE regs
    ELSE regs

is_admin(adm, telegram_id) == telegram_id \in adm

add_resource(rs, resource_type) ==
    Append(rs, [type |-> resource_type, is_active |-> TRUE])

\* ---- EventClassifier -------------------------------------------------------
\* A confidence is a fraction <<numerator, denominator>> with a positive
\* denominator: the code computes positive_count / total_keywords and compares
\* floats.
Frac(n, d) == <<n, d>>
Geq(a, b) == a[1] * b[2] >= b[1] * a[2]
SameFrac(a, b) == a[1] * b[2] = b[1] * a[2]

CLASSIFIER_CONFIDENCE_THRESHOLD == Frac(3, 5)

\* The words a title or a description is made of.  A text is the set of the
\* words of f"{title}. {description}" (texts stay under the 1000 characters
\* of the slice).
WordsIn(str) ==
    CASE str = "t1" -> {"business", "entrepreneurship"}
      [] str = "t2" -> {"startup", "networking"}
      [] str = "t3" -> {"meetup"}
      [] str = "d1" -> {"design"}
      [] str = "d2" -> {"design", "hobby"}
      [] OTHER -> {}

Text(title, description) == WordsIn(title) \cup WordsIn(description)

\* The keywords of the two lists that occur in the words above.
positive_keywords == {"startup", "entrepreneur", "business", "networking", "entrepreneurship"}
negative_keywords == {"design", "art", "hobby"}

\* keyword in text_lower is a substring test: "art" occurs in "startup",
\* "entrepreneur" in "entrepreneurship".
Occurs(keyword, text) ==
    \E w \in text : \/ keyword = w
                     \/ <<keyword, w>> \in {<<"art", "startup">>,
                                            <<"entrepreneur", "entrepreneurship">>}

positive_count(text) == Cardinality({k \in positive_keywords : Occurs(k, text)})
negative_count(text) == Cardinality({k \in negative_keywords : Occurs(k, text)})

Verdict(rel, conf) == [is_relevant |-> rel, confidence |-> conf]

classify_with_keywords_any_positive(text) ==
    LET p == positive_count(text)
        n == negative_count(text)
    IN  IF p + n = 0 THEN Verdict(FALSE, Frac(3, 10))
        ELSE Verdict(p > 0, Frac(p, p + n))

classify_with_keywords_ties(text) ==
    LET p == positive_count(text)
        n == negative_count(text)
    IN  IF p + n = 0 THEN Verdict(FALSE, Frac(3, 10))
        ELSE Verdict(p >= n /\ p > 0, Frac(p, p + n))

classify_with_keywords(text) ==
    LET p == positive_count(text)
        n == negative_count(text)
        total_keywords == p + n
    IN  IF total_keywords = 0 THEN Verdict(FALSE, Frac(3, 10))
        ELSE Verdict(p > n /\ p > 0,
                     IF total_keywords > 0 THEN Frac(p, total_keywords) ELSE Frac(1, 2))

\* What a backend does on one call.  kind "error": the call raises (no
\* connection, timeout; the local pipeline raising).  kind "http": the answer
\* of POST /api/generate, with its status and body; body "notjson": json()
\* raises, "nofield": no response field, "text": the response field, of which
\* head is how it starts after strip().upper() ("yes": with the yes token,
\* "no": with the no token, "other": with neither) and tail its last token
\* when there is more than one: "none", "junk" (float() raises) or "num" with
\* the value val.  kind "local": the zero-shot pipeline's top label (head
\* "yes": one of the first two labels) and top score val.
Reply(kind, status, body, head, tail, val) ==
    [kind |-> kind, status |-> status, body |-> body, head |-> head, tail |-> tail,
     val |-> val]

Unreachable == Reply("error", 0, "none", "none", "none", Frac(0, 1))

Tails == {<<"none", Frac(0, 1)>>, <<"junk", Frac(0, 1)>>, <<"num", Frac(3, 4)>>,
          <<"num", Frac(1, 2)>>, <<"num", Frac(95, 1)>>, <<"num", Frac(-1, 1)>>}

OllamaReplies ==
    {Unreachable,
     Reply("http", 500, "none", "none", "none", Frac(0, 1)),
     Reply("http", 200, "notjson", "none", "none", Frac(0, 1)),
     Reply("http", 200, "nofield", "none", "none", Frac(0, 1))}
    \cup {Reply("http", 200, "text", h, t[1], t[2]) : h \in {"yes", "no", "other"}, t \in Tails}

LocalReplies ==
    {Unreachable}
    \cup {Reply("local", 0, "none", h, "num", v) : h \in {"yes", "no"},
                                                    v \in {Frac(1, 2), Frac(9, 10)}}

\* _test_ollama_connection at construction, then _init_local_model unless the
\* remote backend is in use.
EventClassifier(USE_OLLAMA_CLASSIFIER, probe_ok, model_loads) ==
    LET use_ollama == USE_OLLAMA_CLASSIFIER /\ probe_ok
    IN  [USE_OLLAMA_CLASSIFIER |-> USE_OLLAMA_CLASSIFIER,
         use_ollama |-> use_ollama, classifier |-> ~use_ollama /\ model_loads]

Classifiers ==
    {EventClassifier(u, p, m) : u \in BOOLEAN, p \in BOOLEAN, m \in BOOLEAN}

classify_with_ollama_no_fallback(text, r) ==
    IF r.kind # "http" THEN Verdict(FALSE, Frac(0, 1))
    ELSE IF r.status # 200 \/ r.body = "notjson" THEN classify_with_keywords(text)
    ELSE LET yes == r.body = "text" /\ r.head = "yes"
         IN  Verdict(yes, IF r.body = "text" /\ r.tail = "num" THEN r.val
                          ELSE IF yes THEN Frac(9, 10) ELSE Frac(1, 10))

\* _classify_with_ollama: any exception and any status other than 200 give
\* the keyword result; a body that parses is a yes when it starts with the yes
\* token and a no otherwise, with the default confidence 0.9 / 0.1 unless the
\* last of several tokens is a number.
classify_with_ollama(text, r) ==
    IF r.kind # "http" THEN classify_with_keywords(text)
    ELSE IF r.status # 200 THEN classify_with_keywords(text)
    ELSE IF r.body = "notjson" THEN classify_with_keywords(text)
    ELSE LET yes == r.body = "text" /\ r.head = "yes"
             default == IF yes THEN Frac(9, 10) ELSE Frac(1, 10)
             confidence == IF r.body = "text" /\ r.tail = "num" THEN r.val ELSE default
         IN  Verdict(yes, confidence)

\* _classify_with_local_model: the top label and its score, the keyword
\* result when the pipeline raises.
classify_with_local_model(text, r) ==
    IF r.kind # "local" THEN classify_with_keywords(text)
    ELSE LET is_relevant == r.head = "yes"
         IN  Verdict(is_relevant,
                     IF is_relevant THEN r.val ELSE Frac(r.val[2] - r.val[1], r.val[2]))

is_relevant_event(c, title, description, r) ==
    IF title = "" THEN Verdict(FALSE, Frac(0, 1))
    ELSE IF c.use_ollama THEN classify_with_ollama(Text(title, description), r)
    ELSE IF c.classifier THEN classify_with_local_model(Text(title, description), r)
    ELSE classify_with_keywords(Text(title, description))

\* The backends one call of is_relevant_event goes through, in order: the
\* branch of is_relevant_event, then _classify_with_keywords from the except
\* or the status test of that branch.
backends_tried(c, title, r) ==
    IF title = "" THEN <<>>
    ELSE IF c.use_ollama
         THEN IF r.kind # "http" \/ r.status # 200 \/ r.body = "notjson"
              THEN <<"remote", "keywords">>
              ELSE <<"remote">>
    ELSE IF c.classifier
         THEN IF r.kind # "local" THEN <<"local", "keywords">> ELSE <<"local">>
    ELSE <<"keywords">>

use_ollama_after_gives_up(c, r) == c.use_ollama /\ r.kind # "error"

\* self.use_ollama once a call is over: it is assigned in __init__ alone, no
\* branch and no except of a call touches it.
use_ollama_after(c, r) == c.use_ollama

\* The replies the backend the classifier uses can give.
Replies(c) ==
    IF c.use_ollama THEN OllamaReplies
    ELSE IF c.classifier THEN LocalReplies ELSE {Unreachable}

\* The replies tried in an ingestion cycle.  Remote backend: no connection
\* (the keyword result), a plain yes, a yes under the threshold; local model:
\* the pipeline raising, a yes under or over the threshold, a no.
CycleReplies(c) ==
    {r \in Replies(c) :
        \/ r.kind = "error"
        \/ /\ r.kind = "http" /\ r.body = "text" /\ r.head = "yes"
           /\ <<r.tail, r.val>> \in {<<"none", Frac(0, 1)>>, <<"num", Frac(1, 2)>>}
        \/ r.kind = "local" /\ (r.head = "yes" \/ r.val = Frac(9, 10))}

\* ---- EventParser: what is read off a page --------------------------------
\* A parsed page (soup): elements, the h1/h2/h3/title elements in document
\* order with their stripped text; og_title, the content of the og:title meta
\* tag ("absent": no such tag); matches, per date pattern the values
\* dateparser gives for the matches of the pattern in text order (NoDate: it
\* returns None); meta_date, the same for the event:start_time meta tag
\* (NoMeta: no such tag); body_kw, whether the text outside these elements
\* holds an event keyword; description and location, what the description
\* loop and _extract_location find.  The text "t0" holds no keyword.
EVENT_KEYWORDS == {"meetup", "networking", "startup", "entrepreneurship"}

HeadingTags == <<"h1", "h2", "h3", "title">>
NoElement == [tag |-> "none", text |-> ""]
NoDate == -1
NoMeta == -2
NPatterns == 4

\* any(keyword in text.lower() for keyword in EVENT_KEYWORDS)
HasKeyword(text) == \E k \in EVENT_KEYWORDS : Occurs(k, WordsIn(text))

\* soup.find(tag): the first element of that tag in the document.
find(soup, tag) ==
    IF \E i \in 1..Len(soup.elements) : soup.elements[i].tag = tag
    THEN soup.elements[CHOOSE i \in 1..Len(soup.elements) :
                          /\ soup.elements[i].tag = tag
                          /\ \A j \in 1..(i - 1) : soup.elements[j].tag # tag]
    ELSE NoElement

\* if not title / if not event_date
Falsy(title) == title \in {"absent", ""}

\* The title of _extract_event_info: for tag in h1, h2, h3, title the text of
\* soup.find(tag) is taken, and the loop stops at one with a keyword; the
\* og:title meta tag is read only if what the loop left is empty or None.
extract_title(soup) ==
    LET F[i \in 0..Len(HeadingTags)] ==
            IF i = 0 THEN [title |-> "absent", stop |-> FALSE]
            ELSE IF F[i - 1].stop THEN F[i - 1]
            ELSE LET element == find(soup, HeadingTags[i])
                 IN  IF element = NoElement THEN F[i - 1]
                     ELSE [title |-> element.text, stop |-> HasKeyword(element.text)]
        title == F[Len(HeadingTags)].title
    IN  IF Falsy(title) /\ soup.og_title # "absent" THEN soup.og_title ELSE title

\* The first value of a sequence of parsed matches that is a date after t.
FirstFuture(ms, t) ==
    IF \E i \in 1..Len(ms) : ms[i] # NoDate /\ ms[i] > t
    THEN ms[CHOOSE i \in 1..Len(ms) :
               /\ ms[i] # NoDate /\ ms[i] > t
               /\ \A j \in 1..(i - 1) : ~(ms[j] # NoDate /\ ms[j] > t)]
    ELSE NoDate

extract_date_accepts_now(soup, t) ==
    LET F[p \in 0..NPatterns] ==
            IF p = 0 THEN NoDate
            ELSE IF F[p - 1] # NoDate THEN F[p - 1]
            ELSE FirstFuture(soup.matches[p], t - 1)
    IN  IF F[NPatterns] # NoDate THEN F[NPatterns]
        ELSE IF soup.meta_date \notin {NoMeta, NoDate} THEN soup.meta_date ELSE NoDate

\* _extract_date at time t: for pattern in date_patterns, for match in
\* matches, the first parsed date after datetime.now(); then the
\* event:start_time meta tag, taken whenever it parses.
extract_date(soup, t) ==
    LET F[p \in 0..NPatterns] ==
            IF p = 0 THEN NoDate
            ELSE IF F[p - 1] # NoDate THEN F[p - 1]
            ELSE FirstFuture(soup.matches[p], t)
    IN  IF F[NPatterns] # NoDate THEN F[NPatterns]
        ELSE IF soup.meta_date \notin {NoMeta, NoDate} THEN soup.meta_date ELSE NoDate

extract_event_info_keeps_undated(soup, t) ==
    IF Falsy(extract_title(soup))
    THEN [found |-> FALSE, title |-> "", description |-> "", event_date |-> NoDate,
          location |-> "none"]
    ELSE [found |-> TRUE, title |-> extract_title(soup),
          description |-> soup.description, event_date |-> extract_date(soup, t),
          location |-> soup.location]

\* _extract_event_info at time t: None (found false) without a title or
\* without a date, else the dict of the candidate.
extract_event_info(soup, t) ==
    IF Falsy(extract_title(soup)) \/ extract_date(soup, t) = NoDate
    THEN [found |-> FALSE, title |-> "", description |-> "", event_date |-> NoDate,
          location |-> "none"]
    ELSE [found |-> TRUE, title |-> extract_title(soup),
          description |-> soup.description, event_date |-> extract_date(soup, t),
          location |-> soup.location]

\* has_event_keywords: a keyword anywhere in soup.get_text().
has_event_keywords(soup) ==
    \/ soup.body_kw
    \/ \E i \in 1..Len(soup.elements) : HasKeyword(soup.elements[i].text)
    \/ soup.description # ""

\* ---- EventParser ---------------------------------------------------------
\* What the fetch of a page gives: "error" (the request or raise_for_status
\* raises), "plain" (no event keyword in the text), "nodata" (no title or no
\* date found by _extract_event_info), or "event" with the extracted data.
NoData == [title |-> "", description |-> "", event_date |-> 0, location |-> "none"]

Pages ==
    {[kind |-> k, data |-> NoData] : k \in {"error", "plain", "nodata"}}
    \cup {[kind |-> "event", data |-> d] : d \in Candidates}

\* _parse_website up to the classifier, at time t: the page the parser has in
\* hand after the fetch (ok: it did not raise) and _extract_event_info.
fetched_page(soup, ok, t) ==
    IF ~ok THEN [kind |-> "error", data |-> NoData]
    ELSE IF ~has_event_keywords(soup) THEN [kind |-> "plain", data |-> NoData]
    ELSE LET event_data == extract_event_info(soup, t)
         IN  IF ~event_data.found THEN [kind |-> "nodata", data |-> NoData]
             ELSE [kind |-> "event",
                   data |-> [title |-> event_data.title,
                             description |-> event_data.description,
                             event_date |-> event_data.event_date,
                             location |-> event_data.location]]

\* The pages tried in an ingestion cycle.
CyclePages == {page \in Pages : page.kind \in {"plain", "event"}}

parse_website_no_threshold(page, c, r) ==
    IF page.kind # "event" THEN <<>>
    ELSE IF is_relevant_event(c, page.data.title, page.data.description, r).is_relevant
         THEN <<page.data>>
         ELSE <<>>

\* _parse_website: at most one candidate per page (events.append is reached
\* once), and only through the gate of the classifier; every exception ends
\* in the empty list.
parse_website(page, c, r) ==
    IF page.kind # "event" THEN <<>>
    ELSE LET v == is_relevant_event(c, page.data.title, page.data.description, r)
         IN  IF v.is_relevant /\ Geq(v.confidence, CLASSIFIER_CONFIDENCE_THRESHOLD)
             THEN <<page.data>>
             ELSE <<>>

parse_resource_channel_as_website(resource_type, page, c, r) ==
    IF resource_type \in {"channel", "blog", "website"} THEN parse_website(page, c, r)
    ELSE <<>>

\* parse_resource: nothing for a channel, _parse_website for a blog or a
\* website, and the empty list on any error.
parse_resource(resource_type, page, c, r) ==
    IF resource_type = "channel" THEN <<>>
    ELSE IF resource_type \in {"blog", "website"} THEN parse_website(page, c, r)
         ELSE <<>>

\* ---- history records -----------------------------------------------------
NoCall == [op |-> "none"]

ReminderFlag(reg, k) ==
    IF k = "1day" THEN reg.reminder_1day_sent ELSE reg.reminder_1hour_sent

HoursBefore(k) == IF k = "1day" THEN Hours1Day ELSE Hours1Hour

Ids(hs) == {hs[n].id : n \in 1..Len(hs)}

MarkReminderCall(regs, registration_id, k, after) ==
    [op |-> "mark_reminder_sent", id |-> registration_id, kind |-> k,
     was |-> registration_id \in 1..Len(regs) /\ ReminderFlag(regs[registration_id], k),
     same |-> after = regs]

\* get_registrations_for_reminder called at time t: the ids it returned.
DueCall(k, regs, evs, t) ==
    [op |-> "get_registrations_for_reminder", kind |-> k, at |-> t,
     ids |-> Ids(get_registrations_for_reminder(regs, evs, t, HoursBefore(k)))]

\* What the classifier said of the candidate of a page.
GateCall(page, c, r) ==
    LET v == is_relevant_event(c, page.data.title, page.data.description, r)
    IN  [relevant |-> v.is_relevant,
         confident |-> Geq(v.confidence, CLASSIFIER_CONFIDENCE_THRESHOLD)]

\* add_event called by the ingestion cycle for a candidate that came through
\* the gate with the verdict g.
AddCall(evs, rid, d, a, g) ==
    [op |-> "add_event", key |-> <<rid, d.title, d.event_date>>,
     existed |-> EventExists(evs, rid, d.title, d.event_date),
     differs |-> \E i \in 1..Len(evs) :
                    /\ Triple(evs[i]) = <<rid, d.title, d.event_date>>
                    /\ \/ evs[i].description # d.description
                       \/ evs[i].location # d.location,
     same |-> a.events = evs,
     ret |-> a.ret,
     relevant |-> g.relevant, confident |-> g.confident]

\* A candidate the gate dropped.
DropCall(g) == [op |-> "filtered", relevant |-> g.relevant, confident |-> g.confident]

\* get_or_create_user called for telegram_id: whether a row existed, and
\* whether that row was subscribed.
UserCall(us, telegram_id) ==
    [op |-> "get_or_create_user", tg |-> telegram_id,
     existed |-> \E i \in 1..Len(us) : us[i].telegram_id = telegram_id,
     was |-> \E i \in 1..Len(us) : us[i].telegram_id = telegram_id /\ us[i].is_subscribed]

SubscriptionCall(telegram_id, is_subscribed) ==
    [op |-> "update_user_subscription", tg |-> telegram_id, flag |-> is_subscribed]

\* The reply of an admin command to the user tg.
ReplyCall(handler, tg, text) == [op |-> "reply", handler |-> handler, tg |-> tg, text |-> text]

RegCall(regs, user_id, event_id, r) ==
    [op |-> "register_for_event",
     existed |-> RegExists(regs, user_id, event_id),
     added |-> Len(r.registrations) - Len(regs),
     ret |-> r.ret]

MarkCall(evs, event_id, after) ==
    [op |-> "mark_event_notified", id |-> event_id,
     was |-> event_id \in 1..Len(evs) /\ evs[event_id].notified,
     same |-> after = evs]

\* ---- initial state -------------------------------------------------------
IdleCycle == [pc |-> "idle", by |-> 0, res |-> <<>>, ri |-> 0, count |-> 0,
              admitted |-> {},
              visited |-> {}, offered |-> {}, raised |-> {}, escaped |-> FALSE,
              ev |-> None, us |-> <<>>, ui |-> 0]

IdleJob == [pc |-> "idle", regs |-> <<>>, i |-> 0, prev |-> {}]

\* Updates are handled one at a time: at most one handler is suspended.
NoHandler == [h |-> "none", tg |-> 0, arg |-> 0, pc |-> "none", session |-> FALSE]

\* The classifier of a deployment without the remote backend and without the
\* transformers library: the keyword heuristic alone.
KeywordClassifier == EventClassifier(FALSE, FALSE, FALSE)

InitResources == << [type |-> "website", is_active |-> TRUE],
                    [type |-> "blog", is_active |-> TRUE],
                    [type |-> "channel", is_active |-> TRUE] >>

Init ==
    /\ resources = InitResources
    /\ events = <<>>
    /\ users = <<>>
    /\ registrations = <<>>
    /\ admins = ADMIN_IDS
    /\ now = 0
    /\ loop = "none"
    /\ cyc = [c \in Cycles |-> IdleCycle]
    /\ rem = [k \in Kinds |-> IdleJob]
    /\ outbox = <<>>
    /\ fanoutLog = <<>>
    /\ last = NoCall
    /\ clf = KeywordClassifier
    /\ fg = NoHandler

\* ---- bot.py: the ingestion cycle -------------------------------------------
\* Reading a column of a detached instance: possible only while it is loaded.
ColumnReadable(h) == h.cols

\* Reading registration.event / registration.user of a detached instance.
RelationReadable(h) == h.rels

BeginCycle ==
    [IdleCycle EXCEPT !.pc = "loop", !.res = get_active_resources(resources), !.ri = 1]

\* job_queue.run_repeating(periodic_check): one instance at a time.
periodic_check ==
    /\ loop = "none"
    /\ cyc["periodic"].pc = "idle"
    /\ cyc' = [cyc EXCEPT !["periodic"] = BeginCycle]
    /\ loop' = "periodic"
    /\ UNCHANGED <<store, now, rem, outbox, fanoutLog, last, clf, fg>>

rejected_never(adm, telegram_id) == FALSE

\* The test the admin commands start with: the user is neither in the admins
\* table nor in ADMIN_IDS.
rejected(adm, telegram_id) == ~is_admin(adm, telegram_id) /\ telegram_id \notin ADMIN_IDS

\* /check_resources up to its first await: the "no rights" reply and return,
\* or the "checking ..." reply (by: the user who sent the command).
check_resources(tg) ==
    /\ loop = "none"
    /\ cyc["forced"].pc = "idle"
    /\ IF rejected(admins, tg)
       THEN /\ last' = ReplyCall("check_resources", tg, "denied")
            /\ UNCHANGED cyc
       ELSE /\ cyc' = [cyc EXCEPT !["forced"] = [IdleCycle EXCEPT !.pc = "reply",
                                                                  !.by = tg]]
            /\ UNCHANGED last
    /\ UNCHANGED <<store, now, loop, rem, outbox, fanoutLog, clf, fg>>

\* /add_resource with its third argument (arg "none": fewer than three
\* arguments): rejection, usage, wrong type, or db.add_resource and the reply.
add_resource_command(tg, arg) ==
    /\ loop = "none"
    /\ IF rejected(admins, tg)
       THEN /\ last' = ReplyCall("add_resource", tg, "denied")
            /\ UNCHANGED resources
       ELSE IF arg = "none"
       THEN /\ last' = ReplyCall("add_resource", tg, "usage")
            /\ UNCHANGED resources
       ELSE IF arg \notin {"channel", "blog", "website"}
       THEN /\ last' = ReplyCall("add_resource", tg, "wrong type")
            /\ UNCHANGED resources
       ELSE /\ Len(resources) < MaxResources
            /\ resources' = add_resource(resources, arg)
            /\ last' = ReplyCall("add_resource", tg, "added")
    /\ UNCHANGED <<events, users, registrations, admins, now, loop, cyc, rem, outbox,
                   fanoutLog, clf, fg>>

\* /list_resources: rejection, or get_active_resources and the list.
list_resources(tg) ==
    /\ loop = "none"
    /\ last' = ReplyCall("list_resources", tg,
                         IF rejected(admins, tg) THEN "denied"
                         ELSE IF get_active_resources(resources) = <<>> THEN "empty"
                         ELSE "list")
    /\ UNCHANGED <<store, now, loop, cyc, rem, outbox, fanoutLog, clf, fg>>

\* The reply is through: the handler goes on into check_for_new_events, or the
\* reply raised and the handler is over.
check_resources_resume(ok) ==
    /\ loop = "none"
    /\ cyc["forced"].pc = "reply"
    /\ IF ok
       THEN cyc' = [cyc EXCEPT !["forced"] = BeginCycle] /\ loop' = "forced"
       ELSE cyc' = [cyc EXCEPT !["forced"] = IdleCycle] /\ loop' = "none"
    /\ UNCHANGED <<store, now, rem, outbox, fanoutLog, last, clf, fg>>

NextResource(t) == [t EXCEPT !.pc = "loop", !.ri = t.ri + 1]

on_resource_error_escapes(t) ==
    [t EXCEPT !.pc = "done", !.raised = t.raised \cup {t.res[t.ri]}, !.escaped = TRUE]

\* except Exception around the body of the resource loop: log, next resource.
on_resource_error(t) ==
    [t EXCEPT !.pc = "loop", !.ri = t.ri + 1, !.raised = t.raised \cup {t.res[t.ri]}]

after_send_abort(t, ok) ==
    IF ~ok THEN "raise" ELSE IF t.ui < Len(t.us) THEN "send" ELSE "mark"

\* try/except around each bot.send_message of the fan-out: whatever the
\* outcome, go on to the next user, and to mark_event_notified after the last.
after_send(t, ok) ==
    IF t.ui < Len(t.us) THEN "send" ELSE "mark"

\* for resource in resources: parse_resource, add_event per candidate, and the
\* call of send_event_notification for a new row; after the last resource the
\* function is at its return.
LoopStep(c) ==
    LET t == cyc[c] IN
    IF t.ri > Len(t.res)
    THEN /\ cyc' = [cyc EXCEPT ![c].pc = "done"]
         /\ UNCHANGED <<store, outbox, fanoutLog, last>>
    ELSE LET rid == t.res[t.ri]
             seen == [t EXCEPT !.visited = t.visited \cup {rid}]
         IN  \E page \in CyclePages, r \in CycleReplies(clf) :
               \E found \in {parse_resource(resources[rid].type, page, clf, r)} :
               IF found = <<>>
               THEN /\ cyc' = [cyc EXCEPT ![c] = NextResource(seen)]
                    /\ last' = IF resources[rid].type # "channel" /\ page.kind = "event"
                               THEN DropCall(GateCall(page, clf, r))
                               ELSE last
                    /\ UNCHANGED <<store, outbox, fanoutLog>>
               ELSE LET d == found[1]
                        a == add_event(events, rid, d.title, d.description,
                                       d.event_date, d.location)
                        off == [seen EXCEPT !.offered = seen.offered \cup {rid}]
                    IN  /\ \/ EventExists(events, rid, d.title, d.event_date)
                           \/ Len(events) < MaxEvents
                        /\ events' = a.events
                        /\ last' = AddCall(events, rid, d, a, GateCall(page, clf, r))
                        /\ IF IsNone(a.ret)
                           THEN cyc' = [cyc EXCEPT ![c] = NextResource(off)]
                           ELSE cyc' = [cyc EXCEPT ![c] =
                                          [off EXCEPT !.pc = "notify",
                                                      !.count = off.count + 1,
                                                      !.admitted = off.admitted \cup {a.ret.id},
                                                      !.ev = a.ret]]
                        /\ UNCHANGED <<resources, users, registrations, admins, outbox,
                                       fanoutLog>>

\* send_event_notification up to its first await: get_subscribed_users, the
\* message built from event.event_date, event.title, ..., then the first send.
\* An error here is caught by the except of the resource loop.
NotifyStep(c) ==
    LET t == cyc[c]
        subs == get_subscribed_users(users)
    IN  /\ fanoutLog' = Append(fanoutLog, t.ev.id)
        /\ UNCHANGED <<resources, users, registrations, admins, outbox>>
        /\ IF ~ColumnReadable(t.ev)
           THEN /\ cyc' = [cyc EXCEPT ![c] = on_resource_error([t EXCEPT !.us = subs])]
                /\ loop' = c
                /\ UNCHANGED <<events, last>>
           ELSE IF subs = <<>>
                THEN /\ events' = mark_event_notified(events, t.ev.id)
                     /\ last' = MarkCall(events, t.ev.id, events')
                     /\ cyc' = [cyc EXCEPT ![c] = NextResource(t)]
                     /\ loop' = c
                ELSE /\ cyc' = [cyc EXCEPT ![c] = [t EXCEPT !.pc = "send", !.us = subs,
                                                            !.ui = 1]]
                     /\ loop' = "none"
                     /\ UNCHANGED <<events, last>>

\* One await bot.send_message of the fan-out completes, ok or raising.
SendStep(c) ==
    LET t == cyc[c] IN
    \E ok \in BOOLEAN :
        /\ outbox' = Append(outbox, [kind |-> "event", ref |-> t.ev.id, ok |-> ok,
                                     to |-> users[t.us[t.ui].id].telegram_id])
        /\ UNCHANGED <<resources, users, registrations, admins, fanoutLog>>
        /\ LET nxt == after_send(t, ok) IN
           /\ loop' = IF nxt = "send" THEN "none" ELSE c
           /\ IF nxt = "send"
              THEN /\ cyc' = [cyc EXCEPT ![c].ui = t.ui + 1]
                   /\ UNCHANGED <<events, last>>
              ELSE IF nxt = "mark"
                   THEN /\ events' = mark_event_notified(events, t.ev.id)
                        /\ last' = MarkCall(events, t.ev.id, events')
                        /\ cyc' = [cyc EXCEPT ![c] = NextResource(t)]
                   ELSE /\ cyc' = [cyc EXCEPT ![c] = on_resource_error(t)]
                        /\ UNCHANGED <<events, last>>

\* The coroutine check_for_new_events, from one suspension to the next:
\* "send" is suspended at await bot.send_message, "done" is the return to the
\* caller.
check_for_new_events(c) ==
    /\ cyc[c].pc \in {"loop", "notify", "send", "done"}
    /\ loop = IF cyc[c].pc = "send" THEN "none" ELSE c
    /\ CASE cyc[c].pc = "loop" -> LoopStep(c) /\ loop' = c
         [] cyc[c].pc = "notify" -> NotifyStep(c)
         [] cyc[c].pc = "send" -> SendStep(c)
         [] cyc[c].pc = "done" ->
                /\ cyc' = [cyc EXCEPT ![c] = IdleCycle]
                /\ loop' = "none"
                /\ UNCHANGED <<store, outbox, fanoutLog, last>>
    /\ UNCHANGED <<now, rem, clf, fg>>

\* ---- scheduler.py: the reminder jobs ---------------------------------------
reminder_body_send_first(h) == [send |-> TRUE, mark |-> RelationReadable(h)]

\* The body of the try of one registration: event = registration.event and
\* user = registration.user come first, then the message, the awaited send and,
\* after a send that did not raise, mark_reminder_sent.  send: the await is
\* reached; mark: mark_reminder_sent is reached after a successful send.
reminder_body(h) == [send |-> RelationReadable(h), mark |-> RelationReadable(h)]

reminder_marks_on_failure(h, ok) == ~ok /\ reminder_body(h).mark

reminder_marks_always(h, ok) == reminder_body(h).mark

\* mark_reminder_sent comes after the awaited send in the same try: it is
\* reached only when the send did not raise.
reminder_marks(h, ok) == ok /\ reminder_body(h).mark

\* The scheduler fires the job (max_instances = 1: never while its previous
\* run is still going): registrations = get_registrations_for_reminder(...).
reminder_job(k) ==
    /\ loop = "none"
    /\ rem[k].pc = "idle"
    /\ rem' = [rem EXCEPT ![k].pc = "loop", ![k].i = 1,
                          ![k].regs = get_registrations_for_reminder(
                                          registrations, events, now, HoursBefore(k))]
    /\ loop' = k
    /\ UNCHANGED <<store, now, cyc, outbox, fanoutLog, last, clf, fg>>

\* The coroutine send_1day_reminders / send_1hour_reminders after the query,
\* from one suspension to the next; prev keeps the registrations the run that
\* just ended had found due.
send_reminders(k) ==
    LET j == rem[k] IN
    /\ j.pc \in {"loop", "send"}
    /\ loop = IF j.pc = "send" THEN "none" ELSE k
    /\ UNCHANGED <<resources, events, users, admins, now, cyc, fanoutLog, last, clf, fg>>
    /\ IF j.pc = "loop"
       THEN IF j.i > Len(j.regs)
            THEN /\ rem' = [rem EXCEPT ![k] = [IdleJob EXCEPT !.prev = Ids(j.regs)]]
                 /\ loop' = "none"
                 /\ UNCHANGED <<registrations, outbox>>
            ELSE IF reminder_body(j.regs[j.i]).send
                 THEN /\ rem' = [rem EXCEPT ![k].pc = "send"]
                      /\ loop' = "none"
                      /\ UNCHANGED <<registrations, outbox>>
                 ELSE /\ rem' = [rem EXCEPT ![k].i = j.i + 1]
                      /\ loop' = k
                      /\ UNCHANGED <<registrations, outbox>>
       ELSE \E ok \in BOOLEAN :
              LET rid == j.regs[j.i].id IN
              /\ outbox' = Append(outbox,
                                  [kind |-> k, ref |-> rid, ok |-> ok,
                                   to |-> users[registrations[rid].user_id].telegram_id])
              /\ registrations' = IF reminder_marks(j.regs[j.i], ok)
                                  THEN mark_reminder_sent(registrations, rid, k)
                                  ELSE registrations
              /\ rem' = [rem EXCEPT ![k].pc = "loop", ![k].i = j.i + 1]
              /\ loop' = k

\* ---- bot.py: the command and callback handlers ----------------------------
\* /start: get_or_create_user, then the welcome reply.
start(tg) ==
    /\ loop = "none"
    /\ users' = get_or_create_user(users, tg).users
    /\ UNCHANGED <<resources, events, registrations, admins, now, loop, cyc, rem,
                   outbox, fanoutLog, last, clf, fg>>

Subscription(tg, flag) ==
    /\ loop = "none"
    /\ users' = update_user_subscription(get_or_create_user(users, tg).users, tg, flag)
    /\ UNCHANGED <<resources, events, registrations, admins, now, loop, cyc, rem,
                   outbox, fanoutLog, last, clf, fg>>

subscribe(tg) == Subscription(tg, TRUE)

unsubscribe(tg) == Subscription(tg, FALSE)

\* The register button: await query.answer() first (answered: it did not
\* raise), then get_or_create_user and register_for_event, then the reply.
register_callback(tg, event_id, answered) ==
    /\ loop = "none"
    /\ IF ~answered
       THEN UNCHANGED <<users, registrations, last>>
       ELSE LET u == get_or_create_user(users, tg)
                r == register_for_event(registrations, u.ret.id, event_id)
            IN  /\ \/ RegExists(registrations, u.ret.id, event_id)
                   \/ Len(registrations) < MaxRegs
                /\ users' = u.users
                /\ registrations' = r.registrations
                /\ last' = RegCall(registrations, u.ret.id, event_id, r)
    /\ UNCHANGED <<resources, events, admins, now, loop, cyc, rem, outbox, fanoutLog,
                   clf, fg>>

\* A handler suspended at an await of the transport: pc "answer" at
\* query.answer(), "reply" at reply_text / edit_message_text; session: the
\* session it got from db.get_session() is open (closed in its finally).
Suspended(h, tg, arg, pc, session) ==
    [h |-> h, tg |-> tg, arg |-> arg, pc |-> pc, session |-> session]

\* /events: session = db.get_session(), the query, and the reply awaited inside
\* the try whose finally closes the session.
list_events(tg) ==
    /\ loop = "none"
    /\ fg = NoHandler
    /\ fg' = Suspended("list_events", tg, 0, "reply", TRUE)
    /\ UNCHANGED <<store, now, loop, cyc, rem, outbox, fanoutLog, last, clf>>

\* /my_events: get_or_create_user, then as /events.
my_events(tg) ==
    /\ loop = "none"
    /\ fg = NoHandler
    /\ users' = get_or_create_user(users, tg).users
    /\ fg' = Suspended("my_events", tg, 0, "reply", TRUE)
    /\ UNCHANGED <<resources, events, registrations, admins, now, loop, cyc, rem,
                   outbox, fanoutLog, last, clf>>

\* The button of an event and the back button: await query.answer() first.
event_callback(tg, event_id) ==
    /\ loop = "none"
    /\ fg = NoHandler
    /\ fg' = Suspended("event_callback", tg, event_id, "answer", FALSE)
    /\ UNCHANGED <<store, now, loop, cyc, rem, outbox, fanoutLog, last, clf>>

back_events_callback(tg) ==
    /\ loop = "none"
    /\ fg = NoHandler
    /\ fg' = Suspended("back_events_callback", tg, 0, "answer", FALSE)
    /\ UNCHANGED <<store, now, loop, cyc, rem, outbox, fanoutLog, last, clf>>

\* The awaited call of the suspended handler is through (ok: it did not
\* raise).  After query.answer() the handler opens its session, queries
\* (event_callback upserts the user when the event exists) and awaits
\* edit_message_text inside the try; after the reply the finally closes the
\* session and the handler is over.
resume_handler(ok) ==
    /\ loop = "none"
    /\ fg.h # "none"
    /\ IF fg.pc = "answer" /\ ok
       THEN /\ fg' = [fg EXCEPT !.pc = "reply", !.session = TRUE]
            /\ users' = IF fg.h = "event_callback" /\ fg.arg \in 1..Len(events)
                        THEN get_or_create_user(users, fg.tg).users
                        ELSE users
       ELSE /\ fg' = NoHandler
            /\ UNCHANGED users
    /\ UNCHANGED <<resources, events, registrations, admins, now, loop, cyc, rem,
                   outbox, fanoutLog, last, clf>>

\* ---- the clock -------------------------------------------------------------
Tick ==
    /\ loop = "none"
    /\ \E t \in Clock : t > now /\ now' = t
    /\ UNCHANGED <<store, loop, cyc, rem, outbox, fanoutLog, last, clf, fg>>

\* ---- the program -----------------------------------------------------------
\* The two cycles; the forced one is started by a user /check_resources
\* lets through (anyone else gets the rejection, see Administration).
Ingestion ==
    \/ periodic_check
    \/ \E tg \in {u \in TgIds : ~rejected(admins, u)} : check_resources(tg)
    \/ \E ok \in BOOLEAN : check_resources_resume(ok)
    \/ \E c \in Cycles : check_for_new_events(c)

Reminders ==
    \/ \E k \in Kinds : reminder_job(k)
    \/ \E k \in Kinds : send_reminders(k)

Commands ==
    \/ \E tg \in TgIds : start(tg)
    \/ \E tg \in TgIds : subscribe(tg)
    \/ \E tg \in TgIds : unsubscribe(tg)

Registering ==
    \E tg \in TgIds, e \in 1..Len(events), answered \in BOOLEAN :
        register_callback(tg, e, answered)

Browsing ==
    \/ \E tg \in TgIds : list_events(tg)
    \/ \E tg \in TgIds : my_events(tg)
    \/ \E tg \in TgIds, e \in 1..MaxEvents : event_callback(tg, e)
    \/ \E tg \in TgIds : back_events_callback(tg)
    \/ \E ok \in BOOLEAN : resume_handler(ok)

Administration ==
    \/ \E tg \in TgIds, arg \in {"none", "other", "channel", "blog", "website"} :
           add_resource_command(tg, arg)
    \/ \E tg \in TgIds : list_resources(tg)
    \/ \E tg \in TgIds : check_resources(tg)

Next ==
    Ingestion \/ Reminders \/ Commands \/ Registering \/ Browsing \/ Administration \/ Tick

Spec == Init /\ [][Next]_vars

\* The ingestion side of the program: the two cycles and the commands that
\* write the users table.  Nothing else writes events or users.
NextIngest == Ingestion \/ Commands

SpecIngest == Init /\ [][NextIngest]_vars

\* The periodic cycle on its own, under each classifier a deployment can end
\* up with.
InitGate ==
    /\ resources = InitResources
    /\ events = <<>>
    /\ users = <<>>
    /\ registrations = <<>>
    /\ admins = ADMIN_IDS
    /\ now = 0
    /\ loop = "none"
    /\ cyc = [c \in Cycles |-> IdleCycle]
    /\ rem = [k \in Kinds |-> IdleJob]
    /\ outbox = <<>>
    /\ fanoutLog = <<>>
    /\ last = NoCall
    /\ clf \in Classifiers
    /\ fg = NoHandler

NextGate == periodic_check \/ check_for_new_events("periodic")

SpecGate == InitGate /\ [][NextGate]_vars

AtChannel(c) ==
    /\ cyc[c].pc = "loop"
    /\ cyc[c].ri <= Len(cyc[c].res)
    /\ resources[cyc[c].res[cyc[c].ri]].type = "channel"

\* C22: parse_resource on a channel returns the empty sequence whatever the
\* page behind the url and whatever the classifier backend would answer
\* (neither is called), without raising; the cycle passes a channel without
\* storing anything, and no stored event belongs to a channel.
C22_ChannelGivesNothing ==
    [][/\ \A page \in Pages, r \in Replies(clf) :
             parse_resource("channel", page, clf, r) = <<>>
       /\ \A c \in Cycles :
             (AtChannel(c) /\ cyc'[c] # cyc[c])
             => /\ events' = events /\ last' = last
                /\ cyc'[c].pc = "loop" /\ cyc'[c].ri = cyc[c].ri + 1
                /\ cyc'[c].count = cyc[c].count
                /\ cyc'[c].raised = cyc[c].raised /\ ~cyc'[c].escaped
       /\ \A i \in 1..Len(events') :
             resources[events'[i].resource_id].type # "channel"]_vars

\* The cycle is over: it went through the channel after storing events of the
\* other resources.
C22_Witness ==
    /\ cyc["periodic"].pc = "done"
    /\ \E rid \in cyc["periodic"].visited : resources[rid].type = "channel"
    /\ Len(events) = MaxEvents
    /\ \A i \in 1..Len(events) : resources[events[i].resource_id].type # "channel"

\* What the resource rid added to the number the cycle c returns.
Contribution(c, rid) ==
    Cardinality({e \in cyc[c].admitted : events[e].resource_id = rid})

\* C23: the number a cycle returns is the number of its add_event calls that
\* returned a new row, and a resource whose processing raised an error in the
\* cycle contributes zero to it.
C23_CountOfNewRows ==
    \A c \in Cycles :
        cyc[c].pc = "done"
        => /\ cyc[c].count = Cardinality(cyc[c].admitted)
           /\ \A rid \in cyc[c].raised : Contribution(c, rid) = 0

\* ---- claims: the ingestion cycle --------------------------------------------
Rows(key) == {i \in 1..Len(events) : Triple(events[i]) = key}

\* C1: in every reachable state no two stored events share
\* (resource_id, title, event_date), whatever the interleaving of the periodic
\* and the forced cycle.
C1_UniqueTriple ==
    \A i, j \in 1..Len(events) : i # j => Triple(events[i]) # Triple(events[j])

\* The forced cycle, resumed after its first reply, offers a candidate whose
\* triple is already stored.
C1_Witness ==
    /\ cyc["forced"].pc = "loop"
    /\ cyc["forced"].offered # {}
    /\ last.op = "add_event" /\ last.existed
    /\ Len(events) = MaxEvents

\* C2: send_event_notification is started at most once per event (per triple),
\* and no user is sent two new-event notifications for the same event.
C2_FanoutOnce ==
    /\ \A i, j \in 1..Len(fanoutLog) :
          i # j => Triple(events[fanoutLog[i]]) # Triple(events[fanoutLog[j]])
    /\ \A m, n \in 1..Len(outbox) :
          (m # n /\ outbox[m].kind = "event" /\ outbox[n].kind = "event"
                 /\ outbox[m].to = outbox[n].to)
          => Triple(events[outbox[m].ref]) # Triple(events[outbox[n].ref])

\* A later cycle extracted the candidate again: add_event returned None and the
\* fan-out log still has one entry per event.
C2_Witness ==
    /\ last.op = "add_event" /\ last.existed /\ IsNone(last.ret)
    /\ \E i \in 1..Len(fanoutLog) : Triple(events[fanoutLog[i]]) = last.key
    /\ cyc["periodic"].pc = "loop"

Delivered(kind, ref, tg) ==
    \E n \in 1..Len(outbox) :
        outbox[n].kind = kind /\ outbox[n].ref = ref /\ outbox[n].to = tg

\* C3: when check_for_new_events returns, every event it admitted has had a
\* delivery attempted to every subscribed user and is marked notified.
C3_AdmittedIsNotified ==
    \A c \in Cycles :
        cyc[c].pc = "done" =>
            \A e \in cyc[c].admitted :
                /\ events[e].notified
                /\ \A n \in 1..Len(users) :
                      users[n].is_subscribed
                      => Delivered("event", e, users[n].telegram_id)

\* C6: add_event on a stored triple returns None and leaves the table as it
\* was, also when description or location differ; on a new triple it inserts
\* and returns the new row; either way the triple is stored exactly once.
C6_AddEventIdempotent ==
    last.op = "add_event" =>
        /\ Cardinality(Rows(last.key)) = 1
        /\ IF last.existed
           THEN IsNone(last.ret) /\ last.same
           ELSE ~IsNone(last.ret) /\ ~last.same /\ Rows(last.key) = {last.ret.id}

\* The second call carried another description or location than the stored row.
C6_Witness ==
    last.op = "add_event" /\ last.existed /\ last.differs /\ IsNone(last.ret)

\* C9: a cycle reaches its return with no exception escaped and with every
\* active resource extracted, whichever resources raised.
C9_CycleSurvivesErrors ==
    \A c \in Cycles :
        cyc[c].pc = "done" =>
            /\ ~cyc[c].escaped
            /\ cyc[c].visited = {cyc[c].res[n] : n \in 1..Len(cyc[c].res)}
            /\ cyc[c].raised \subseteq cyc[c].offered

\* A resource raised and a later resource still had its candidate passed to
\* add_event before the cycle returned.
C9_Witness ==
    \E c \in Cycles :
        /\ cyc[c].pc = "done"
        /\ \E k \in cyc[c].raised, j \in cyc[c].offered : j > k

\* ---- the reminder side of the program ---------------------------------------
\* A row of events as add_event inserts it.
EventRow(rid, d) ==
    [resource_id |-> rid, title |-> d.title, description |-> d.description,
     event_date |-> d.event_date, location |-> d.location, notified |-> FALSE]

\* Event tables the ingestion cycle leaves behind: one or two rows of the
\* website resource, with different titles and dates.
IngestedTables ==
    LET a == CHOOSE d \in Candidates : d.title = "t1" /\ d.description = ""
        b == CHOOSE d \in Candidates : d.title = "t2"
    IN  { <<EventRow(1, a)>>, <<EventRow(1, b)>>,
          <<EventRow(1, a), EventRow(1, b)>>, <<EventRow(1, b), EventRow(1, a)>> }

\* The program once ingestion has stored some events (each had its fan-out
\* started), before any user has been seen.
InitRemind ==
    /\ resources = InitResources
    /\ events \in IngestedTables
    /\ users = <<>>
    /\ registrations = <<>>
    /\ admins = ADMIN_IDS
    /\ now = 0
    /\ loop = "none"
    /\ cyc = [c \in Cycles |-> IdleCycle]
    /\ rem = [k \in Kinds |-> IdleJob]
    /\ outbox = <<>>
    /\ fanoutLog = [i \in 1..Len(events) |-> i]
    /\ last = NoCall
    /\ clf = KeywordClassifier
    /\ fg = NoHandler

\* The register button, the two reminder jobs and the clock.  Nothing else
\* writes registrations.
NextRemind == Reminders \/ Registering \/ Tick

SpecRemind == InitRemind /\ [][NextRemind]_vars

\* ---- claims: reminders and registrations -----------------------------------
Sent(kind, ref) ==
    {n \in 1..Len(outbox) : outbox[n].kind = kind /\ outbox[n].ref = ref /\ outbox[n].ok}

\* C4: over the runs of the two reminder jobs (a job never overlaps itself) a
\* registration is delivered at most one reminder per threshold.
C4_OneReminderPerThreshold ==
    \A k \in Kinds : \A r \in 1..Len(registrations) : Cardinality(Sent(k, r)) <= 1

\* A run has gone through all its due registrations, one of which the
\* previous run of the same job had found due as well.
C4_Witness ==
    \E k \in Kinds :
        /\ rem[k].pc = "loop"
        /\ rem[k].i > Len(rem[k].regs)
        /\ Ids(rem[k].regs) \cap rem[k].prev # {}

C7_RegisterOnce ==
    /\ \A i, j \in 1..Len(registrations) :
          i # j => \/ registrations[i].user_id # registrations[j].user_id
                   \/ registrations[i].event_id # registrations[j].event_id
    /\ last.op = "register_for_event" =>
          /\ last.ret = ~last.existed
          /\ last.added = IF last.existed THEN 0 ELSE 1

\* A repeated register callback of the same user for the same event.
C7_Witness ==
    /\ last.op = "register_for_event" /\ last.existed /\ ~last.ret
    /\ Len(registrations) = MaxRegs

\* ---- send_event_notification on its own -------------------------------------
\* Users tables with every user of TgIds, subscribed or not.
UserTables ==
    { [n \in TgIds |-> [telegram_id |-> n, is_subscribed |-> sub[n]]] :
        sub \in [TgIds -> BOOLEAN] }

\* check_for_new_events at its call of send_event_notification(bot, event) for
\* row e of the first resource.
AtNotify(e, h) ==
    [IdleCycle EXCEPT !.pc = "notify", !.res = <<1>>, !.ri = 1, !.count = 1,
                      !.admitted = {e}, !.visited = {1}, !.offered = {1}, !.ev = h]

\* send_event_notification called with an Event instance of a stored row:
\* expired, as add_event returns it, or with its columns loaded.
InitFanout ==
    /\ resources = InitResources
    /\ events \in IngestedTables
    /\ users \in UserTables
    /\ registrations = <<>>
    /\ admins = ADMIN_IDS
    /\ now = 0
    /\ loop = "periodic"
    /\ \E e \in 1..Len(events), loaded \in BOOLEAN :
          cyc = [c \in Cycles |->
                   IF c = "periodic" THEN AtNotify(e, Obj(e, loaded, FALSE))
                   ELSE IdleCycle]
    /\ rem = [k \in Kinds |-> IdleJob]
    /\ outbox = <<>>
    /\ fanoutLog = <<>>
    /\ last = NoCall
    /\ clf = KeywordClassifier
    /\ fg = NoHandler

NextFanout == check_for_new_events("periodic") \/ Commands

SpecFanout == InitFanout /\ [][NextFanout]_vars

Attempted(ref, tg) ==
    \E n \in 1..Len(outbox) :
        outbox[n].kind = "event" /\ outbox[n].ref = ref /\ outbox[n].to = tg

\* C8: once the fan-out of an event is over, if one of its deliveries raised,
\* a delivery was attempted for every user of the subscriber list all the same
\* and the event is marked notified.
C8_FanoutIsolatesFailure ==
    \A c \in Cycles :
        LET t == cyc[c] IN
        (/\ t.pc \in {"loop", "done"}
         /\ ~IsNone(t.ev)
         /\ \E n \in 1..Len(outbox) :
               outbox[n].kind = "event" /\ outbox[n].ref = t.ev.id /\ ~outbox[n].ok)
        => /\ \A n \in 1..Len(t.us) : Attempted(t.ev.id, users[t.us[n].id].telegram_id)
           /\ events[t.ev.id].notified

\* The first of two deliveries raised, the second went through, and the event
\* is marked.
C8_Witness ==
    LET t == cyc["periodic"] IN
    /\ t.pc = "loop" /\ ~IsNone(t.ev)
    /\ Len(t.us) >= 2
    /\ Len(outbox) >= 2
    /\ ~outbox[1].ok /\ outbox[2].ok
    /\ outbox[1].to # outbox[2].to
    /\ events[t.ev.id].notified

\* C31: once the fan-out of an event is over, the users a delivery of its
\* notification was attempted for are exactly the users of the subscriber list
\* read by that fan-out, whatever /subscribe and /unsubscribe commands ran
\* in between.
C31_RecipientsAreSubscribers ==
    \A c \in Cycles :
        LET t == cyc[c] IN
        (t.pc \in {"loop", "done"} /\ ~IsNone(t.ev))
        => \A tg \in TgIds :
              Attempted(t.ev.id, tg)
              <=> \E n \in 1..Len(t.us) : users[t.us[n].id].telegram_id = tg

\* ---- the classifier on its own -----------------------------------------------
Titles == {"", "t1", "t2", "t3"}
Descriptions == {"", "d1", "d2"}

\* after_error: the call before this one went to the remote backend and found
\* no connection.
ClassifyCall(c, title, description, r, prev) ==
    [op |-> "is_relevant_event", title |-> title, description |-> description,
     reply |-> r, verdict |-> is_relevant_event(c, title, description, r),
     tried |-> backends_tried(c, title, r),
     after_error |-> /\ prev.op = "is_relevant_event"
                     /\ prev.reply.kind = "error"
                     /\ prev.tried # <<>> /\ prev.tried[1] = "remote"]

\* One call of is_relevant_event, with what the backend in use does on it.
Classify(title, description, r) ==
    /\ last' = ClassifyCall(clf, title, description, r, last)
    /\ clf' = [clf EXCEPT !.use_ollama = use_ollama_after(clf, r)]
    /\ UNCHANGED <<store, now, loop, cyc, rem, outbox, fanoutLog, fg>>

NextClassify ==
    \E title \in Titles, description \in Descriptions, r \in Replies(clf) :
        Classify(title, description, r)

SpecClassify == InitGate /\ [][NextClassify]_vars

\* The remote backend was configured and cannot be reached: the probe at
\* startup failed, or the call raises.
RemoteUnreachable ==
    /\ last.op = "is_relevant_event"
    /\ clf.USE_OLLAMA_CLASSIFIER
    /\ ~clf.use_ollama \/ last.reply.kind = "error"

KeywordVerdict == classify_with_keywords(Text(last.title, last.description))

\* C16 as stated: with the remote backend configured and unreachable,
\* is_relevant_event returns exactly the keyword heuristic's result.
C16_UnreachableGivesKeywords ==
    RemoteUnreachable => last.verdict = KeywordVerdict

\* C16 amended: with the remote backend configured and unreachable, a call
\* with a title returns the keyword heuristic's result, unless the probe
\* failed at startup and the local model was loaded and answers: then it
\* returns the local model's label and score.
C16_UnreachableFallsDownChain ==
    (RemoteUnreachable /\ last.title # "")
    => IF ~clf.use_ollama /\ clf.classifier /\ last.reply.kind = "local"
       THEN /\ last.verdict.is_relevant = (last.reply.head = "yes")
            /\ SameFrac(last.verdict.confidence,
                        IF last.reply.head = "yes" THEN last.reply.val
                        ELSE Frac(last.reply.val[2] - last.reply.val[1],
                                  last.reply.val[2]))
       ELSE last.verdict = KeywordVerdict

\* The backend answered the probe, the call finds it unreachable, and the
\* keyword heuristic says relevant.
C16_Witness ==
    /\ RemoteUnreachable /\ clf.use_ollama
    /\ last.title # ""
    /\ last.verdict.is_relevant
    /\ last.verdict = KeywordVerdict

\* C17: the keyword heuristic with p positive and n negative keywords matched
\* returns (False, 0.3) when p + n = 0, and otherwise p > n and p > 0 with
\* the confidence p / (p + n).
C17_KeywordFormula ==
    (last.op = "is_relevant_event" /\ ~clf.use_ollama /\ ~clf.classifier
       /\ last.title # "")
    => LET p == positive_count(Text(last.title, last.description))
           n == negative_count(Text(last.title, last.description))
       IN  IF p + n = 0
           THEN /\ ~last.verdict.is_relevant
                /\ SameFrac(last.verdict.confidence, Frac(3, 10))
           ELSE /\ last.verdict.is_relevant = (p > n /\ p > 0)
                /\ (p + n) * last.verdict.confidence[1] = p * last.verdict.confidence[2]

\* As many negative as positive keywords matched: not relevant, confidence 1/2.
C17_Witness ==
    /\ last.op = "is_relevant_event" /\ ~clf.use_ollama /\ ~clf.classifier
    /\ positive_count(Text(last.title, last.description)) = 2
    /\ negative_count(Text(last.title, last.description)) = 2
    /\ ~last.verdict.is_relevant
    /\ SameFrac(last.verdict.confidence, Frac(1, 2))

\* The verdict of the call is the one _classify_with_keywords returned.
KeywordsAnswered ==
    /\ last.op = "is_relevant_event"
    /\ last.tried # <<>> /\ last.tried[Len(last.tried)] = "keywords"

\* C33: the two outputs of the keyword heuristic agree for every text: it says
\* relevant only with a confidence strictly above 1/2, and not relevant only
\* with a confidence of at most 1/2.
C33_VerdictAgreesWithConfidence ==
    KeywordsAnswered
    => LET conf == last.verdict.confidence
       IN  last.verdict.is_relevant <=> 2 * conf[1] > conf[2]

\* The remote call failed and the heuristic, on a text with two positive and
\* three negative keywords, said not relevant with confidence 2/5.
C33_Witness ==
    /\ KeywordsAnswered /\ last.tried = <<"remote", "keywords">>
    /\ positive_count(Text(last.title, last.description)) = 2
    /\ negative_count(Text(last.title, last.description)) = 3
    /\ ~last.verdict.is_relevant
    /\ SameFrac(last.verdict.confidence, Frac(2, 5))

\* C18: the confidence is_relevant_event returns lies in [0, 1], under every
\* backend and whatever follows the yes/no token of the remote answer.
C18_ConfidenceInUnitInterval ==
    last.op = "is_relevant_event"
    => /\ Geq(last.verdict.confidence, Frac(0, 1))
       /\ Geq(Frac(1, 1), last.verdict.confidence)

\* C19: a 200 answer of the remote backend that is malformed (not JSON, no
\* response field, neither a yes nor a no) gives the keyword heuristic's
\* result for that call.
C19_MalformedGivesKeywords ==
    (/\ last.op = "is_relevant_event" /\ clf.use_ollama /\ last.title # ""
     /\ last.reply.kind = "http" /\ last.reply.status = 200
     /\ \/ last.reply.body \in {"notjson", "nofield"}
        \/ last.reply.body = "text" /\ last.reply.head = "other")
    => last.verdict = KeywordVerdict

\* The call went to the remote backend and it failed: no connection, a status
\* other than 200, a body that is not JSON.
RemoteFailed ==
    /\ last.op = "is_relevant_event"
    /\ Len(last.tried) >= 2 /\ last.tried[1] = "remote"

\* C27: when the remote backend fails on a call, the local model is tried
\* before the keyword heuristic: the order on every call is remote, local
\* model, keyword heuristic.
C27_LocalBeforeKeywords ==
    RemoteFailed => last.tried[2] = "local"

\* The remote backend is configured and the probe of __init__ failed:
\* use_ollama starts as USE_OLLAMA_CLASSIFIER and __init__ clears it on a
\* failed probe only.
ProbeFailed == clf.USE_OLLAMA_CLASSIFIER /\ ~clf.use_ollama

Contacted(call, backend) ==
    \E n \in 1..Len(call.tried) : call.tried[n] = backend

\* C28: with the remote backend configured, it is given up for the lifetime
\* of the process exactly when the probe at startup failed: after a failed
\* probe no call contacts it, after a successful one every call with a title
\* contacts it, the call after a transport error included.
C28_AbandonedAtStartupOnly ==
    [][/\ clf' = clf
       /\ (clf.USE_OLLAMA_CLASSIFIER /\ last'.op = "is_relevant_event"
             /\ last'.title # "")
          => /\ ProbeFailed => ~Contacted(last', "remote")
             /\ ~ProbeFailed => last'.tried[1] = "remote"
             /\ (last'.after_error /\ last' # last) => last'.tried[1] = "remote"]_vars

\* The call after one that found no connection reached the remote backend
\* and got its answer.
C28_Witness ==
    /\ last.op = "is_relevant_event" /\ last.after_error
    /\ last.tried = <<"remote">>
    /\ clf.use_ollama

\* ---- the parser on its own -----------------------------------------------------
Soup(elements, og_title, matches, meta_date, body_kw, description, location) ==
    [elements |-> elements, og_title |-> og_title, matches |-> matches,
     meta_date |-> meta_date, body_kw |-> body_kw, description |-> description,
     location |-> location]

Element(tag, text) == [tag |-> tag, text |-> text]

NoMatches == [p \in 1..NPatterns |-> <<>>]

\* The pages parsed here, each with an event keyword in its text: no heading,
\* an empty one, one without a keyword,
\* one with a keyword, an empty title element after a heading; with and
\* without og:title; a body date that is never ahead, an unparsable one
\* followed by one that is ahead at first; with and without the date meta tag.
ParseSoups ==
    {Soup(els, og, ms, meta, TRUE, "", "none") :
        els \in {<<>>, <<Element("h1", "")>>, <<Element("h1", "t0")>>,
                 <<Element("h2", "t2")>>,
                 <<Element("h1", "t0"), Element("title", "")>>},
        og \in {"absent", "t1"},
        ms \in {NoMatches, [NoMatches EXCEPT ![1] = <<0>>],
                [NoMatches EXCEPT ![2] = <<NoDate, 1>>]},
        meta \in {NoMeta, 24}}

\* A page without any event keyword.
PlainSoup == Soup(<<Element("h1", "t0")>>, "t1", NoMatches, 24, FALSE, "", "none")

\* The fetches tried: each page above fetched, the plain page fetched, and a
\* fetch that raises.
Fetches ==
    {<<soup, TRUE>> : soup \in ParseSoups} \cup {<<PlainSoup, TRUE>>, <<PlainSoup, FALSE>>}

ParseCall(page, found) ==
    [op |-> "_parse_website", kind |-> page.kind, emitted |-> found # <<>>,
     data |-> IF found # <<>> THEN found[1] ELSE NoData]

\* _parse_website on one page of resource 1 and, as in the resource loop,
\* add_event for what it returned.
ParseAndStore(soup, ok, r) ==
    \E page \in {fetched_page(soup, ok, now)} :
    \E found \in {parse_website(page, clf, r)} :
        /\ IF found = <<>> THEN TRUE
           ELSE \/ EventExists(events, 1, found[1].title, found[1].event_date)
                \/ Len(events) < MaxEvents
        /\ last' = ParseCall(page, found)
        /\ events' = IF found = <<>> THEN events
                     ELSE add_event(events, 1, found[1].title, found[1].description,
                                    found[1].event_date, found[1].location).events
        /\ UNCHANGED <<resources, users, registrations, admins, now, loop, cyc, rem,
                       outbox, fanoutLog, clf, fg>>

InitParse ==
    /\ resources = InitResources
    /\ events = <<>>
    /\ users = <<>>
    /\ registrations = <<>>
    /\ admins = ADMIN_IDS
    /\ now = 0
    /\ loop = "none"
    /\ cyc = [c \in Cycles |-> IdleCycle]
    /\ rem = [k \in Kinds |-> IdleJob]
    /\ outbox = <<>>
    /\ fanoutLog = <<>>
    /\ last = NoCall
    /\ clf = EventClassifier(TRUE, TRUE, FALSE)
    /\ fg = NoHandler

NextParse ==
    \/ \E f \in Fetches, r \in CycleReplies(clf) : ParseAndStore(f[1], f[2], r)
    \/ Tick

SpecParse == InitParse /\ [][NextParse]_vars

\* C21: a candidate without a derivable title or date is never emitted by the
\* extractor, so that every emitted candidate and every stored event has a
\* non-empty title and a date.
C21_TitleAndDate ==
    /\ (last.op = "_parse_website" /\ last.emitted)
       => /\ last.kind = "event"
          /\ last.data.title # "" /\ last.data.event_date # NoDate
    /\ \A i \in 1..Len(events) :
          events[i].title # "" /\ events[i].event_date # NoDate

\* A page with a heading and no date was parsed and nothing was emitted, after
\* a candidate of another page had been stored.
C21_Witness ==
    /\ last.op = "_parse_website" /\ last.kind = "nodata" /\ ~last.emitted
    /\ Len(events) >= 1

\* ---- the handlers that read the store ----------------------------------------
\* The commands and buttons that list events, and the register button they
\* lead to.
NextBrowse == Browsing \/ Registering

SpecBrowse == InitRemind /\ [][NextBrowse]_vars

\* A call to the messaging transport is in flight: a handler or a job is
\* suspended at its await.  (The fetch and the classifier calls are blocking
\* calls inside _parse_website, made with no session open.)
InFlight ==
    \/ fg.h # "none"
    \/ \E c \in Cycles : cyc[c].pc \in {"reply", "send"}
    \/ \E k \in Kinds : rem[k].pc = "send"

\* C25: in every reachable state no session of the store is open while a
\* call to the transport, the fetch or the classifier is in flight, in the
\* jobs and in the command handlers.
C25_NoSessionAcrossCall == InFlight => ~fg.session

\* ---- _extract_date on its own ---------------------------------------------------
SeqsUpTo(S, n) == UNION {[1..k -> S] : k \in 0..n}

\* What dateparser makes of a match: nothing, or an hour of the clock.
MatchValues == {NoDate, 1, 24}

\* Pages with up to MaxMatches matches of each of the first two patterns and
\* at most one of each of the others.
DateSoups ==
    {Soup(<<>>, "absent", <<m1, m2, m3, m4>>, meta, TRUE, "", "none") :
        m1 \in SeqsUpTo(MatchValues, MaxMatches),
        m2 \in SeqsUpTo(MatchValues, MaxMatches),
        m3 \in SeqsUpTo({NoDate, 24}, 1),
        m4 \in SeqsUpTo({NoDate, 24}, 1),
        meta \in {NoMeta, NoDate, 1, 25}}

PageInHand(soup) == [op |-> "soup", soup |-> soup]

DateCall(soup, t) ==
    [op |-> "_extract_date", soup |-> soup, at |-> t, date |-> extract_date(soup, t)]

\* The parser has a page in hand at some hour.
InitDate ==
    /\ resources = InitResources
    /\ events = <<>>
    /\ users = <<>>
    /\ registrations = <<>>
    /\ admins = ADMIN_IDS
    /\ now \in Clock
    /\ loop = "none"
    /\ cyc = [c \in Cycles |-> IdleCycle]
    /\ rem = [k \in Kinds |-> IdleJob]
    /\ outbox = <<>>
    /\ fanoutLog = <<>>
    /\ last \in {PageInHand(soup) : soup \in DateSoups}
    /\ clf = KeywordClassifier
    /\ fg = NoHandler

ExtractDate ==
    /\ last.op = "soup"
    /\ last' = DateCall(last.soup, now)
    /\ UNCHANGED <<store, now, loop, cyc, rem, outbox, fanoutLog, clf, fg>>

SpecDate == InitDate /\ [][ExtractDate]_vars

\* The matches of the body text, in pattern order and then text order.
BodyMatches(soup) ==
    soup.matches[1] \o soup.matches[2] \o soup.matches[3] \o soup.matches[4]

\* C29: the date taken from the body text is the first match, in pattern
\* order and then text order, that parses and is strictly after the time of
\* extraction; matches that parse to that time or before are skipped; the
\* date meta tag is read only when no match of the body text qualifies.
C29_FirstFutureMatch ==
    last.op = "_extract_date"
    => LET ms == BodyMatches(last.soup)
           Qualifies(i) == ms[i] # NoDate /\ ms[i] > last.at
       IN  IF \E i \in 1..Len(ms) : Qualifies(i)
           THEN \E i \in 1..Len(ms) :
                   /\ Qualifies(i) /\ \A j \in 1..(i - 1) : ~Qualifies(j)
                   /\ last.date = ms[i]
           ELSE last.date = IF last.soup.meta_date \in {NoMeta, NoDate} THEN NoDate
                            ELSE last.soup.meta_date

\* A match of the first pattern parses to the very hour of the extraction and
\* is skipped; the date is a later match of the second pattern, not the one
\* of the meta tag.
C29_Witness ==
    /\ last.op = "_extract_date"
    /\ last.soup.matches[1] # <<>> /\ last.soup.matches[1][1] = last.at
    /\ last.soup.matches[2] # <<>>
    /\ last.date = 24 /\ last.soup.meta_date = 25

\* ---- the title of _extract_event_info on its own ------------------------------
\* Pages with up to MaxElements heading-like elements, each empty, without a
\* keyword ("t0") or with one ("t2"); og:title absent, empty or "t1".
HeadingElements ==
    {Element(HeadingTags[i], text) : i \in 1..Len(HeadingTags), text \in {"", "t0", "t2"}}

TitleSoups ==
    {Soup(els, og, NoMatches, NoMeta, TRUE, "", "none") :
        els \in SeqsUpTo(HeadingElements, MaxElements),
        og \in {"absent", "", "t1"}}

TitleCall(soup) ==
    [op |-> "_extract_title", soup |-> soup, title |-> extract_title(soup)]

InitTitle ==
    /\ resources = InitResources
    /\ events = <<>>
    /\ users = <<>>
    /\ registrations = <<>>
    /\ admins = ADMIN_IDS
    /\ now = 0
    /\ loop = "none"
    /\ cyc = [c \in Cycles |-> IdleCycle]
    /\ rem = [k \in Kinds |-> IdleJob]
    /\ outbox = <<>>
    /\ fanoutLog = <<>>
    /\ last \in {PageInHand(soup) : soup \in TitleSoups}
    /\ clf = KeywordClassifier
    /\ fg = NoHandler

ExtractTitle ==
    /\ last.op = "soup"
    /\ last' = TitleCall(last.soup)
    /\ UNCHANGED <<store, now, loop, cyc, rem, outbox, fanoutLog, clf, fg>>

SpecTitle == InitTitle /\ [][ExtractTitle]_vars

\* C30: the title is the text of the first heading-like element whose text
\* holds a keyword; when no heading-like element holds one, the title is the
\* og:title of the page (none without that tag), not the text of a heading
\* without a keyword.
C30_KeywordHeadingElseOgTitle ==
    last.op = "_extract_title"
    => LET els == last.soup.elements
           Keyed(i) == HasKeyword(els[i].text)
       IN  IF \E i \in 1..Len(els) : Keyed(i)
           THEN \E i \in 1..Len(els) :
                   /\ Keyed(i) /\ \A j \in 1..(i - 1) : ~Keyed(j)
                   /\ last.title = els[i].text
           ELSE IF Falsy(last.soup.og_title) THEN Falsy(last.title)
                ELSE last.title = last.soup.og_title

\* ---- the sessions of the Database methods --------------------------------------
\* Every method is  session = self.get_session(); try: ... finally:
\* session.close().  A call leaves at a return of the try block ("early": the
\* return under `if existing`; "return": any other), at an exception of a query
\* or commit inside it ("raise"), or at an exception of a statement between
\* get_session() and try ("setup").  Only get_registrations_for_reminder has
\* such statements, and of them only timedelta(hours=hours_before) can raise,
\* when hours_before is not a number.
RaisePoints(method, hours_before) ==
    {"no", "body"}
    \cup (IF method = "get_registrations_for_reminder" /\ hours_before \notin Int
          THEN {"setup"} ELSE {})

exit_of(existing, raises) ==
    IF raises = "setup" THEN "setup"
    ELSE IF raises = "body" THEN "raise"
    ELSE IF existing THEN "early" ELSE "return"

close_reached_on_return_only(exit) == exit \in {"early", "return"}

\* finally: session.close() runs on every exit from the try block.
close_reached(exit) == exit # "setup"

\* The sessions open outside the Database class: the one of a suspended handler.
open_sessions(h) == IF h.session THEN 1 ELSE 0

SessionCall(method, exit, before) ==
    [op |-> "session", method |-> method, exit |-> exit, before |-> before,
     after |-> before + 1 - (IF close_reached(exit) THEN 1 ELSE 0)]

DbCall(method, id, user_id, d, flag, kind) ==
    [method |-> method, id |-> id, user_id |-> user_id, d |-> d, flag |-> flag,
     kind |-> kind]

\* The calls made here: the scheduler passes hours_before = 24 and 1.
DbCalls ==
    LET d0 == CHOOSE d \in Candidates : d.title = "t1" /\ d.description = "" IN
    {DbCall("add_event", 1, 0, d, FALSE, "1day") :
        d \in {c \in Candidates : c.description = ""}}
    \cup {DbCall("mark_event_notified", e, 0, d0, FALSE, "1day") : e \in 1..MaxEvents}
    \cup {DbCall("get_or_create_user", 1, 0, d0, FALSE, "1day")}
    \cup {DbCall("update_user_subscription", 1, 0, d0, flag, "1day") : flag \in BOOLEAN}
    \cup {DbCall("register_for_event", 1, u, d0, FALSE, "1day") : u \in 1..Len(users)}
    \cup {DbCall("mark_reminder_sent", 1, 0, d0, FALSE, k) : k \in Kinds}
    \cup {DbCall("get_registrations_for_reminder", 0, 0, d0, FALSE, k) : k \in Kinds}
    \cup {DbCall(m, 1, 0, d0, FALSE, "1day") :
            m \in {"get_subscribed_users", "get_active_resources", "is_admin"}}

\* One call of a Database method, from get_session() to its return or raise.
\* A call that raises has committed nothing.
Db_operation(call, raises) ==
    LET m == call.method
        existing == IF m = "add_event"
                    THEN EventExists(events, call.id, call.d.title, call.d.event_date)
                    ELSE IF m = "register_for_event"
                    THEN RegExists(registrations, call.user_id, call.id)
                    ELSE FALSE
        done == raises = "no"
    IN  /\ raises \in RaisePoints(m, HoursBefore(call.kind))
        /\ (done /\ m = "add_event") => (existing \/ Len(events) < MaxEvents)
        /\ (done /\ m = "register_for_event")
              => (existing \/ Len(registrations) < MaxRegs)
        /\ events' =
              IF done /\ m = "add_event"
              THEN add_event(events, call.id, call.d.title, call.d.description,
                             call.d.event_date, call.d.location).events
              ELSE IF done /\ m = "mark_event_notified"
              THEN mark_event_notified(events, call.id)
              ELSE events
        /\ users' =
              IF done /\ m = "get_or_create_user"
              THEN get_or_create_user(users, call.id).users
              ELSE IF done /\ m = "update_user_subscription"
              THEN update_user_subscription(users, call.id, call.flag)
              ELSE users
        /\ registrations' =
              IF done /\ m = "register_for_event"
              THEN register_for_event(registrations, call.user_id, call.id).registrations
              ELSE IF done /\ m = "mark_reminder_sent"
              THEN mark_reminder_sent(registrations, call.id, call.kind)
              ELSE registrations
        /\ last' = SessionCall(m, exit_of(existing, raises), open_sessions(fg))
        /\ UNCHANGED <<resources, admins, now, loop, cyc, rem, outbox, fanoutLog, clf,
                       fg>>

\* The methods called in any order from the empty store, also while /events,
\* which opened a session of its own, is suspended at its reply.
NextSessions ==
    \/ \E call \in DbCalls, raises \in {"no", "body", "setup"} :
          Db_operation(call, raises)
    \/ \E tg \in TgIds : list_events(tg)
    \/ \E ok \in BOOLEAN : resume_handler(ok)

SpecSessions == Init /\ [][NextSessions]_vars

\* C32: after a call of a Database method has returned or raised, as many
\* sessions are open as before the call: the session the method opened is
\* closed at every return, early or not, and at a raise.
C32_SessionReleased ==
    last.op = "session" => last.after = last.before

\* add_event raised while the session of the suspended /events handler was
\* open, in a store that holds a registration.
C32_Witness ==
    /\ last.op = "session"
    /\ last.method = "add_event" /\ last.exit = "raise"
    /\ last.before = 1 /\ last.after = 1
    /\ fg.session
    /\ Len(registrations) > 0

\* ---- the admin commands -----------------------------------------------------
\* A deployment with no resource yet; the admins table holds ADMIN_IDS (main)
\* and, possibly, an admin an earlier run left in it.
InitAdmin ==
    /\ resources = <<>>
    /\ events = <<>>
    /\ users = <<>>
    /\ registrations = <<>>
    /\ admins \in {ADMIN_IDS, ADMIN_IDS \cup {2}}
    /\ now = 0
    /\ loop = "none"
    /\ cyc = [c \in Cycles |-> IdleCycle]
    /\ rem = [k \in Kinds |-> IdleJob]
    /\ outbox = <<>>
    /\ fanoutLog = <<>>
    /\ last = NoCall
    /\ clf = KeywordClassifier
    /\ fg = NoHandler

\* The admin commands up to the start of the forced cycle.
NextAdmin ==
    \/ Administration
    \/ \E ok \in BOOLEAN : check_resources_resume(ok)

SpecAdmin == InitAdmin /\ [][NextAdmin]_vars

NotAdmin(tg) == tg \notin admins /\ tg \notin ADMIN_IDS

\* C26: an admin command of a user who is neither in the admins table nor in
\* ADMIN_IDS ends in the rejection reply and changes nothing; a resource is
\* added and a forced cycle is started only for a user who is in one of them.
C26_AdminOnly ==
    [][/\ (last'.op = "reply" /\ last' # last /\ NotAdmin(last'.tg))
          => /\ last'.text = "denied"
             /\ store' = store /\ cyc' = cyc /\ loop' = loop
       /\ resources' # resources
          => last'.op = "reply" /\ last'.text = "added" /\ ~NotAdmin(last'.tg)
       /\ (cyc["forced"].pc = "idle" /\ cyc'["forced"].pc # "idle")
          => ~NotAdmin(cyc'["forced"].by)]_vars

\* /check_resources of a user who is no admin has just been rejected, after
\* an admin had added a resource; no forced cycle is going.
C26_Witness ==
    /\ last.op = "reply" /\ last.handler = "check_resources" /\ last.text = "denied"
    /\ NotAdmin(last.tg)
    /\ Len(resources) >= 1
    /\ cyc["forced"].pc = "idle"

\* ---- the Database class on its own -------------------------------------------
\* Its methods called in any order with any arguments, from the empty store.
Db_add_event(rid, d) ==
    LET a == add_event(events, rid, d.title, d.description, d.event_date, d.location)
    IN  /\ EventExists(events, rid, d.title, d.event_date) \/ Len(events) < MaxEvents
        /\ events' = a.events
        /\ last' = [op |-> "add_event"]
        /\ UNCHANGED <<resources, users, registrations, admins, now, loop, cyc, rem,
                       outbox, fanoutLog, clf, fg>>

Db_mark_event_notified(event_id) ==
    /\ events' = mark_event_notified(events, event_id)
    /\ last' = MarkCall(events, event_id, events')
    /\ UNCHANGED <<resources, users, registrations, admins, now, loop, cyc, rem,
                   outbox, fanoutLog, clf, fg>>

Db_get_or_create_user(tg) ==
    /\ users' = get_or_create_user(users, tg).users
    /\ last' = UserCall(users, tg)
    /\ UNCHANGED <<resources, events, registrations, admins, now, loop, cyc, rem,
                   outbox, fanoutLog, clf, fg>>

Db_update_user_subscription(tg, flag) ==
    /\ users' = update_user_subscription(users, tg, flag)
    /\ last' = SubscriptionCall(tg, flag)
    /\ UNCHANGED <<resources, events, registrations, admins, now, loop, cyc, rem,
                   outbox, fanoutLog, clf, fg>>

Db_register_for_event(user_id, event_id) ==
    LET r == register_for_event(registrations, user_id, event_id)
    IN  /\ RegExists(registrations, user_id, event_id) \/ Len(registrations) < MaxRegs
        /\ registrations' = r.registrations
        /\ last' = [op |-> "register_for_event"]
        /\ UNCHANGED <<resources, events, users, admins, now, loop, cyc, rem, outbox,
                       fanoutLog, clf, fg>>

Db_mark_reminder_sent(registration_id, k) ==
    /\ registrations' = mark_reminder_sent(registrations, registration_id, k)
    /\ last' = MarkReminderCall(registrations, registration_id, k, registrations')
    /\ UNCHANGED <<resources, events, users, admins, now, loop, cyc, rem, outbox,
                   fanoutLog, clf, fg>>

Db_get_registrations_for_reminder(k) ==
    /\ last' = DueCall(k, registrations, events, now)
    /\ UNCHANGED <<store, now, loop, cyc, rem, outbox, fanoutLog, clf, fg>>

\* Events of the two page resources, one user and one registration: the other
\* tables are kept small, the events table is the one under test.
NextStore ==
    \/ \E rid \in {1, 2}, d \in Candidates : Db_add_event(rid, d)
    \/ \E e \in 1..MaxEvents : Db_mark_event_notified(e)
    \/ Db_get_or_create_user(1)
    \/ \E flag \in BOOLEAN : Db_update_user_subscription(1, flag)
    \/ \E u \in 1..Len(users) : Db_register_for_event(u, 1)
    \/ \E k \in Kinds : Db_mark_reminder_sent(1, k)

SpecStore == Init /\ [][NextStore]_vars

\* C10: notified never goes from true back to false, only a call of
\* mark_event_notified for that event changes it, and mark_event_notified on
\* an event already notified leaves the whole store as it was.
C10_NotifiedMonotone ==
    [][/\ \A e \in 1..Len(events) :
             /\ events[e].notified => events'[e].notified
             /\ events'[e].notified # events[e].notified
                => last'.op = "mark_event_notified" /\ last'.id = e
       /\ \A e \in 1..Len(events) :
             (events[e].notified /\ last'.op = "mark_event_notified" /\ last'.id = e)
             => store' = store]_vars

\* mark_event_notified called on an event that was already notified.
C10_Witness ==
    /\ last.op = "mark_event_notified" /\ last.was /\ last.same
    /\ events[last.id].notified
    /\ Len(registrations) > 0

\* The users table on its own: upserts and subscription changes for every
\* telegram id, and the register button, which upserts its user.
NextUsers ==
    \/ \E tg \in TgIds : Db_get_or_create_user(tg)
    \/ \E tg \in TgIds, flag \in BOOLEAN : Db_update_user_subscription(tg, flag)
    \/ Registering

SpecUsers == InitRemind /\ [][NextUsers]_vars

Subscribed(us, tg) ==
    \E i \in 1..Len(us) : us[i].telegram_id = tg /\ us[i].is_subscribed

\* C24: get_or_create_user adds a subscribed row for an unseen telegram id; for
\* a known one it adds no row and leaves is_subscribed of every row as it is,
\* so that a flag changes only in update_user_subscription and an unsubscribed
\* user stays unsubscribed through any number of upserts.
C24_UpsertKeepsSubscription ==
    [][/\ last'.op = "get_or_create_user"
          => IF last'.existed
             THEN users' = users
             ELSE users' = Append(users, [telegram_id |-> last'.tg,
                                          is_subscribed |-> TRUE])
       /\ Len(users') \in {Len(users), Len(users) + 1}
       /\ \A i \in 1..Len(users') : i > Len(users) => users'[i].is_subscribed
       /\ \A i \in 1..Len(users) :
             /\ users'[i].telegram_id = users[i].telegram_id
             /\ users'[i].is_subscribed # users[i].is_subscribed
                => /\ last'.op = "update_user_subscription"
                   /\ users[i].telegram_id = last'.tg
                   /\ users'[i].is_subscribed = last'.flag
       /\ \A i, j \in 1..Len(users') :
             users'[i].telegram_id = users'[j].telegram_id => i = j]_vars

\* An upsert has just found a user who had unsubscribed, next to a second
\* user, and he is still unsubscribed.
C24_Witness ==
    /\ last.op = "get_or_create_user" /\ last.existed /\ ~last.was
    /\ ~Subscribed(users, last.tg)
    /\ Len(users) >= 2

\* ---- the Database class on the registrations of a user ------------------------
\* The events are stored, one user registers; mark_reminder_sent and the due
\* query are called in any order while the clock advances.
NextFlags ==
    \/ Db_get_or_create_user(1)
    \/ \E u \in 1..Len(users), e \in 1..Len(events) : Db_register_for_event(u, e)
    \/ \E r \in 1..MaxRegs, k \in Kinds : Db_mark_reminder_sent(r, k)
    \/ \E k \in Kinds : Db_get_registrations_for_reminder(k)
    \/ Tick

SpecFlags == InitRemind /\ [][NextFlags]_vars

\* C11: a reminder flag only goes from false to true, never back, and
\* mark_reminder_sent on a flag already set leaves the store as it was.
C11_ReminderFlagOneWay ==
    [][\A r \in 1..Len(registrations), k \in Kinds :
          /\ ReminderFlag(registrations[r], k) => ReminderFlag(registrations'[r], k)
          /\ (/\ ReminderFlag(registrations[r], k)
              /\ last'.op = "mark_reminder_sent" /\ last'.id = r /\ last'.kind = k)
             => store' = store]_vars

\* mark_reminder_sent called on a flag that was already set.
C11_Witness ==
    /\ last.op = "mark_reminder_sent" /\ last.was /\ last.same
    /\ ReminderFlag(registrations[last.id], last.kind)

\* C12: mark_reminder_sent(reg, kind) sets that flag of that registration and
\* nothing else: a flag changes only in a call for its own registration and
\* kind, the call keeps every other column, registration and table, and the
\* flag it sets is set after the call whatever the other flag is.
C12_MarkTouchesOneFlag ==
    [][/\ \A r \in 1..Len(registrations), k \in Kinds :
             ReminderFlag(registrations'[r], k) # ReminderFlag(registrations[r], k)
             => last'.op = "mark_reminder_sent" /\ last'.id = r /\ last'.kind = k
       /\ (last'.op = "mark_reminder_sent" /\ last' # last)
          => /\ Len(registrations') = Len(registrations)
             /\ \A r \in 1..Len(registrations) :
                   /\ registrations'[r].user_id = registrations[r].user_id
                   /\ registrations'[r].event_id = registrations[r].event_id
             /\ last'.id \in 1..Len(registrations)
                => ReminderFlag(registrations'[last'.id], last'.kind)
             /\ <<resources, events, users, admins>>' = <<resources, events, users, admins>>]_vars

\* Both flags of one registration are set, by two calls, while another
\* registration still has both pending.
C12_Witness ==
    /\ last.op = "mark_reminder_sent"
    /\ \E r, q \in 1..Len(registrations) :
          /\ registrations[r].reminder_1day_sent /\ registrations[r].reminder_1hour_sent
          /\ ~registrations[q].reminder_1day_sent /\ ~registrations[q].reminder_1hour_sent

EventDateOf(r) == events[registrations[r].event_id].event_date

\* C13: get_registrations_for_reminder(h) returns exactly the registrations
\* with now < event_date <= now + h whose flag of that threshold is false;
\* so an event 23 hours away is due for the 24 h query and not for the 1 h one.
C13_DueWindow ==
    (last.op = "get_registrations_for_reminder" /\ last.at = now)
    => /\ last.kind = "1day"
          => last.ids = {r \in 1..Len(registrations) :
                           /\ now < EventDateOf(r) /\ EventDateOf(r) <= now + 24
                           /\ ~registrations[r].reminder_1day_sent}
       /\ last.kind = "1hour"
          => last.ids = {r \in 1..Len(registrations) :
                           /\ now < EventDateOf(r) /\ EventDateOf(r) <= now + 1
                           /\ ~registrations[r].reminder_1hour_sent}
       /\ \A r \in 1..Len(registrations) :
             (EventDateOf(r) - now = 23 /\ ~ReminderFlag(registrations[r], last.kind))
             => (r \in last.ids <=> last.kind = "1day")

\* The 1 h query, 23 hours before an event whose 24 h reminder is marked,
\* does not return the registration.
C13_Witness ==
    /\ last.op = "get_registrations_for_reminder" /\ last.at = now
    /\ last.kind = "1hour"
    /\ \E r \in 1..Len(registrations) :
          /\ EventDateOf(r) - now = 23
          /\ registrations[r].reminder_1day_sent /\ ~registrations[r].reminder_1hour_sent
          /\ r \notin last.ids

\* ---- claims: the delivery of reminders -----------------------------------------
RunOver(k) == rem[k].pc = "loop" /\ rem[k].i > Len(rem[k].regs)

\* C14: at the end of a reminder run in which no send was refused, every
\* registration the run found due has had its reminder delivered and its flag
\* set.
C14_DueIsDeliveredAndMarked ==
    \A k \in Kinds :
        (/\ RunOver(k)
         /\ \A n \in 1..Len(outbox) : outbox[n].ok)
        => \A r \in Ids(rem[k].regs) :
              /\ Sent(k, r) # {}
              /\ ReminderFlag(registrations[r], k)

\* ---- a reminder run on its own --------------------------------------------------
\* Every user of TgIds is registered for the first event; send_1day_reminders
\* is past its query, holding the due registrations, each with its event and
\* user loaded or not.
InitDeliver ==
    /\ resources = InitResources
    /\ events \in IngestedTables
    /\ users = [n \in TgIds |-> [telegram_id |-> n, is_subscribed |-> TRUE]]
    /\ registrations = [n \in TgIds |-> [user_id |-> n, event_id |-> 1,
                                         reminder_1day_sent |-> FALSE,
                                         reminder_1hour_sent |-> FALSE]]
    /\ admins = ADMIN_IDS
    /\ now = 0
    /\ loop = "1day"
    /\ cyc = [c \in Cycles |-> IdleCycle]
    /\ LET due == get_registrations_for_reminder(registrations, events, now, Hours1Day)
       IN  \E loaded \in [1..Len(due) -> BOOLEAN] :
              rem = [k \in Kinds |->
                       IF k = "1day"
                       THEN [IdleJob EXCEPT !.pc = "loop", !.i = 1,
                                            !.regs = [n \in 1..Len(due) |->
                                                        Obj(due[n].id, TRUE, loaded[n])]]
                       ELSE IdleJob]
    /\ outbox = <<>>
    /\ fanoutLog = [i \in 1..Len(events) |-> i]
    /\ last = NoCall
    /\ clf = KeywordClassifier
    /\ fg = NoHandler

NextDeliver == Reminders \/ Tick

SpecDeliver == InitDeliver /\ [][NextDeliver]_vars

\* The only deliveries of the reminder k of registration r raised.
FailedOnly(k, r) ==
    /\ \E n \in 1..Len(outbox) :
          outbox[n].kind = k /\ outbox[n].ref = r /\ ~outbox[n].ok
    /\ Sent(k, r) = {}

C15_FlagStaysPending ==
    \A k \in Kinds : \A r \in 1..Len(registrations) :
        FailedOnly(k, r) => ~ReminderFlag(registrations[r], k)

C15_OthersProcessed ==
    \A k \in Kinds :
        RunOver(k)
        => \A n \in 1..Len(rem[k].regs) :
              RelationReadable(rem[k].regs[n])
              => \E m \in 1..Len(outbox) :
                    outbox[m].kind = k /\ outbox[m].ref = rem[k].regs[n].id

\* C15: a delivery that raises does not stop the run (every other due
\* registration still gets its delivery), the flag of the failed registration
\* stays false, and the next run finds it due again while its event is inside
\* the window.
C15_FailedStaysDue ==
    [][/\ C15_FlagStaysPending'
       /\ C15_OthersProcessed'
       /\ \A k \in Kinds :
             (rem[k].pc = "idle" /\ rem'[k].pc = "loop")
             => \A r \in 1..Len(registrations) :
                   (/\ FailedOnly(k, r)
                    /\ now < EventDateOf(r) /\ EventDateOf(r) <= now + HoursBefore(k))
                   => r \in Ids(rem'[k].regs)]_vars

\* A second run of the job has found due again the registration whose delivery
\* raised in the first run, and not the one that was delivered and marked.
C15_Witness ==
    \E k \in Kinds, r, q \in 1..Len(registrations) :
        /\ rem[k].pc = "loop"
        /\ r \in rem[k].prev /\ q \in rem[k].prev
        /\ FailedOnly(k, r) /\ r \in Ids(rem[k].regs)
        /\ Sent(k, q) # {} /\ ReminderFlag(registrations[q], k)
        /\ q \notin Ids(rem[k].regs)

\* C34: a reminder flag of a registration is true only if a send of that
\* threshold's reminder to the registered user went through before: the
\* scheduler marks no reminder whose delivery raised or was not attempted.
C34_FlagOnlyAfterDelivery ==
    \A k \in Kinds : \A r \in 1..Len(registrations) :
        ReminderFlag(registrations[r], k)
        => \E n \in 1..Len(outbox) :
              /\ outbox[n].kind = k /\ outbox[n].ref = r /\ outbox[n].ok
              /\ outbox[n].to = users[registrations[r].user_id].telegram_id

\* A run is over: one registration was delivered its reminder and is marked,
\* another was not attempted and is not.
C34_Witness ==
    \E k \in Kinds, r, q \in 1..Len(registrations) :
        /\ RunOver(k)
        /\ Sent(k, r) # {} /\ ReminderFlag(registrations[r], k)
        /\ q \in Ids(rem[k].regs)
        /\ \A n \in 1..Len(outbox) : outbox[n].ref # q
        /\ ~ReminderFlag(registrations[q], k)

====
